---- MODULE Spec2Model ----
(***************************************************************************)
(* Sandboxed code execution subsystem of the code-editor backend:          *)
(* ExecutionService.execute_code, the per-language executors, the process  *)
(* runner BaseExecutor.execute_with_timeout and the workspace lifecycle.   *)
(*                                                                         *)
(* Text is modelled as the set of phrases it contains (the empty set is a  *)
(* blank text); a classifier's substring test is a test on the phrases.    *)
(* Language identifiers and source code are sequences of characters.       *)
(***************************************************************************)
EXTENDS Integers, Sequences, FiniteSets, TLC

(***************************************************************************)
(* Characters and strings                                                  *)
(***************************************************************************)
UpperLetters == <<"A","B","C","D","E","F","G","H","I","J","K","L","M",
                  "N","O","P","Q","R","S","T","U","V","W","X","Y","Z">>

LowerLetters == <<"a","b","c","d","e","f","g","h","i","j","k","l","m",
                  "n","o","p","q","r","s","t","u","v","w","x","y","z">>

Digits == {"0","1","2","3","4","5","6","7","8","9"}

Whitespace == {" ", "\n", "\t", "\r"}

Range(s) == {s[i] : i \in DOMAIN s}

IsAlpha(c) == c \in Range(UpperLetters) \cup Range(LowerLetters)

IsAlnumUnderscore(c) == IsAlpha(c) \/ c \in Digits \/ c = "_"

\* str.lower() on one character
LowerChar(c) ==
    IF \E i \in DOMAIN UpperLetters : UpperLetters[i] = c
    THEN LowerLetters[CHOOSE i \in DOMAIN UpperLetters : UpperLetters[i] = c]
    ELSE c

\* str.lower()
Lower(s) == [i \in DOMAIN s |-> LowerChar(s[i])]

RECURSIVE LStrip(_)
LStrip(s) == IF s # <<>> /\ Head(s) \in Whitespace THEN LStrip(Tail(s)) ELSE s

RECURSIVE RStrip(_)
RStrip(s) ==
    IF s # <<>> /\ s[Len(s)] \in Whitespace
    THEN RStrip(SubSeq(s, 1, Len(s) - 1))
    ELSE s

\* a strip that removes one character at most from each end
StripOneEach(s) ==
    LET l == IF s # <<>> /\ Head(s) \in Whitespace THEN Tail(s) ELSE s
    IN  IF l # <<>> /\ l[Len(l)] \in Whitespace THEN SubSeq(l, 1, Len(l) - 1) ELSE l

\* str.strip()
Strip(s) == RStrip(LStrip(s))

\* str.replace('\x00', '')
RECURSIVE RemoveNul(_)
RemoveNul(s) ==
    IF s = <<>> THEN <<>>
    ELSE IF Head(s) = "NUL" THEN RemoveNul(Tail(s))
    ELSE <<Head(s)>> \o RemoveNul(Tail(s))

\* str.replace('\r\n', '\n')
RECURSIVE ReplaceCrLf(_)
ReplaceCrLf(s) ==
    IF s = <<>> THEN <<>>
    ELSE IF Len(s) >= 2 /\ s[1] = "\r" /\ s[2] = "\n"
         THEN <<"\n">> \o ReplaceCrLf(SubSeq(s, 3, Len(s)))
    ELSE <<Head(s)>> \o ReplaceCrLf(Tail(s))

\* str.replace('\r', '\n')
ReplaceCr(s) == [i \in DOMAIN s |-> IF s[i] = "\r" THEN "\n" ELSE s[i]]

\* re.match(r'^[a-zA-Z][a-zA-Z0-9_]*$', s): '$' also matches just before a
\* newline that ends the string
MatchesLanguagePattern(s) ==
    LET body == IF s # <<>> /\ s[Len(s)] = "\n"
                THEN SubSeq(s, 1, Len(s) - 1) ELSE s
    IN  /\ body # <<>>
        /\ IsAlpha(body[1])
        /\ \A i \in 2..Len(body) : IsAlnumUnderscore(body[i])

(***************************************************************************)
(* Request model (app/models/execution.py)                                 *)
(***************************************************************************)
MaxCodeLen == 50000
MaxInputLen == 10000
MinTimeout == 1
MaxTimeout == 60

\* Optional values: None is [some |-> FALSE]
None == [some |-> FALSE, val |-> 0]
Some(v) == [some |-> TRUE, val |-> v]
NoText == [some |-> FALSE, val |-> <<>>]

\* ExecutionRequest.validate: the list of error messages
ValidationErrors(r) ==
    (IF r.language = <<>> THEN {"language required"}
     ELSE IF ~MatchesLanguagePattern(r.language) THEN {"language pattern"}
     ELSE {})
    \cup
    (IF r.code = <<>> THEN {"code required"}
     ELSE IF Len(Strip(r.code)) = 0 THEN {"code empty"}
     ELSE IF Len(r.code) > MaxCodeLen THEN {"code too long"}
     ELSE {})
    \cup
    (IF r.input.some /\ Len(r.input.val) > MaxInputLen
     THEN {"input too long"} ELSE {})
    \cup
    (IF r.timeout.some /\ (r.timeout.val < MinTimeout \/ r.timeout.val > MaxTimeout)
     THEN {"timeout range"} ELSE {})

validate(r) == [valid |-> ValidationErrors(r) = {}, errors |-> ValidationErrors(r)]

SanitizeText(s) == ReplaceCr(ReplaceCrLf(RemoveNul(s)))

\* ExecutionRequest.sanitize
sanitize(r) ==
    [language |-> Strip(Lower(r.language)),
     code     |-> SanitizeText(r.code),
     input    |-> IF r.input.some THEN [some |-> TRUE, val |-> SanitizeText(r.input.val)]
                  ELSE NoText,
     timeout  |-> r.timeout]

(***************************************************************************)
(* Language catalog (app/models/language.py) and executor registry         *)
(***************************************************************************)
Id_c          == <<"c">>
Id_cpp        == <<"c","p","p">>
Id_csharp     == <<"c","s","h","a","r","p">>
Id_css        == <<"c","s","s">>
Id_go         == <<"g","o">>
Id_html       == <<"h","t","m","l">>
Id_java       == <<"j","a","v","a">>
Id_javascript == <<"j","a","v","a","s","c","r","i","p","t">>
Id_php        == <<"p","h","p">>
Id_python     == <<"p","y","t","h","o","n">>
Id_r          == <<"r">>
Id_ruby       == <<"r","u","b","y">>
Id_rust       == <<"r","u","s","t">>
Id_typescript == <<"t","y","p","e","s","c","r","i","p","t">>

DefaultTimeoutSeconds == 30

\* Language.timeout_seconds of each catalog entry, keyed by Language.id
SUPPORTED_LANGUAGES ==
    [id \in {Id_c, Id_cpp, Id_csharp, Id_css, Id_go, Id_html, Id_java,
             Id_javascript, Id_php, Id_python, Id_r, Id_ruby, Id_rust,
             Id_typescript}
        |-> IF id \in {Id_css, Id_html} THEN 0 ELSE DefaultTimeoutSeconds]

\* get_language_by_id: the catalog entry (its timeout_seconds) or None
get_language_by_id(id) ==
    IF id \in DOMAIN SUPPORTED_LANGUAGES THEN Some(SUPPORTED_LANGUAGES[id]) ELSE None

\* create_resource_limits(language).max_execution_time: the field's default
\* unless the language has an adjustment
create_resource_limits(language) ==
    CASE language = Id_java -> 45
      [] language = Id_cpp -> 45
      [] language = Id_csharp -> 45
      [] language = Id_rust -> 60
      [] language = Id_go -> 30
      [] language \in {Id_python, Id_javascript, Id_php, Id_ruby} -> 30
      [] language = Id_typescript -> 45
      [] OTHER -> 30

\* the executor class registered for each language id when every import works
AllExecutors ==
    [id \in {Id_python, Id_javascript, Id_java, Id_cpp, Id_c, Id_csharp,
             Id_php, Id_ruby, Id_go, Id_rust, Id_r, Id_typescript}
        |-> CASE id = Id_python     -> "PythonExecutor"
              [] id = Id_javascript -> "JavaScriptExecutor"
              [] id = Id_java       -> "JavaExecutor"
              [] id = Id_cpp        -> "CppExecutor"
              [] id = Id_c          -> "CExecutor"
              [] id = Id_csharp     -> "CSharpExecutor"
              [] id = Id_php        -> "PhpExecutor"
              [] id = Id_ruby       -> "RubyExecutor"
              [] id = Id_go         -> "GoExecutor"
              [] id = Id_rust       -> "RustExecutor"
              [] id = Id_r          -> "RExecutor"
              [] id = Id_typescript -> "TypeScriptExecutor"]

NoExecutors == [id \in {} |-> ""]

\* the languages whose executor modules the try block imports, in the order
\* of its import statements
ImportOrder ==
    <<Id_python, Id_javascript, Id_java, Id_cpp, Id_c, Id_csharp,
      Id_php, Id_ruby, Id_go, Id_rust, Id_r, Id_typescript>>

\* the module each import statement names
ExecutorModule(id) ==
    CASE id = Id_python     -> "app.executors.python_executor"
      [] id = Id_javascript -> "app.executors.javascript_executor"
      [] id = Id_java       -> "app.executors.java_executor"
      [] id = Id_cpp        -> "app.executors.cpp_executor"
      [] id = Id_c          -> "app.executors.c_executor"
      [] id = Id_csharp     -> "app.executors.csharp_executor"
      [] id = Id_php        -> "app.executors.php_executor"
      [] id = Id_ruby       -> "app.executors.ruby_executor"
      [] id = Id_go         -> "app.executors.go_executor"
      [] id = Id_rust       -> "app.executors.rust_executor"
      [] id = Id_r          -> "app.executors.r_executor"
      [] id = Id_typescript -> "app.executors.typescript_executor"

\* the position of the first import statement that raises, 0 when none does
FirstFailure(failedImports) ==
    LET bad == {i \in DOMAIN ImportOrder :
                    ExecutorModule(ImportOrder[i]) \in failedImports}
    IN  IF bad = {} THEN 0 ELSE CHOOSE i \in bad : \A j \in bad : i <= j

\* a loader that registers each executor right after importing it
load_language_executors_one_by_one(failedImports) ==
    LET k == FirstFailure(failedImports)
        loaded == {ImportOrder[i] : i \in {j \in DOMAIN ImportOrder : k = 0 \/ j < k}}
    IN  [id \in loaded |-> AllExecutors[id]]

\* ExecutionService._load_language_executors: all imports come before the
\* first registration, so one failing import registers nothing
load_language_executors(failedImports) ==
    IF FirstFailure(failedImports) = 0 THEN AllExecutors ELSE NoExecutors

(***************************************************************************)
(* Output text and the error classifiers (parse_error_output)              *)
(***************************************************************************)
\* phrases a text can contain
Phrases == {"plain", "ExecErr", "TimeoutNotice", "CompilerNotFound", "Diag",
            "PySyntax", "PyIndent", "PyName", "RNotFound", "Segfault",
            "RustPanic", "JavaNpe"}

\* the substring tests of the classifiers that a phrase satisfies:
\*   plain             ordinary program output
\*   ExecErr           "Execution error: [Errno 2] No such file or directory: ..."
\*   TimeoutNotice     "\nExecution timed out after N seconds"
\*   CompilerNotFound  "C compiler not found. Please install gcc, clang, ..."
\*   Diag              "program.c:3:5: error: expected ';' before 'return'"
\*   PySyntax          "SyntaxError: invalid syntax"
\*   PyIndent          "IndentationError: unexpected indent"
\*   PyName            "NameError: name 'x' is not defined"
\*   RNotFound         "Error in print(x) : object 'x' not found"
\*   Segfault          "Segmentation fault (core dumped)"
\*   RustPanic         "thread 'main' panicked at src/main.rs:2:5:"
\*   JavaNpe           "Exception in thread "main" java.lang.NullPointerException"
Satisfies(p) ==
    CASE p = "ExecErr" -> {"ci:error:"}
      [] p = "Diag"    -> {"ci:error:", "re::N:N:"}
      [] p = "CompilerNotFound" -> {"ci:not found"}
      [] p = "PySyntax" -> {"SyntaxError: ", "SyntaxError", "Error: ", "Error",
                            "ci:error:", "re:\\w+Error"}
      [] p = "PyIndent" -> {"IndentationError: ", "Error: ", "Error", "ci:error:",
                            "ci:unexpected", "re:\\w+Error"}
      [] p = "PyName"   -> {"NameError: ", "NameError", "Error: ", "Error",
                            "ci:error:", "re:\\w+Error"}
      [] p = "RNotFound" -> {"Error", "ci:error in", "ci:not found", "ci:object"}
      [] p = "Segfault" -> {"ci:segmentation fault", "ci:core dumped"}
      [] p = "RustPanic" -> {"panicked at", "re::N:N:"}
      [] p = "JavaNpe"  -> {"Exception", "NullPointerException", "re:\\w+Exception"}
      [] OTHER         -> {}

Has(text, test) == \E p \in text : test \in Satisfies(p)

HasAny(text, tests) == \E x \in tests : Has(text, x)

\* stderr.strip() if it is not blank, else stdout.strip()
ErrorText(stderr, stdout) == IF stderr # {} THEN stderr ELSE stdout

\* first entry of an ordered <<test, type>> table whose test matches
RECURSIVE FirstMatch(_, _, _)
FirstMatch(text, table, default) ==
    IF table = <<>> THEN default
    ELSE IF Has(text, Head(table)[1]) THEN Head(table)[2]
    ELSE FirstMatch(text, Tail(table), default)

BaseType(text) == "runtime_error"

PythonType(text) ==
    FirstMatch(text,
        << <<"SyntaxError: ", "syntax_error">>, <<"NameError: ", "name_error">>,
           <<"TypeError: ", "type_error">>, <<"ValueError: ", "value_error">>,
           <<"IndexError: ", "index_error">>, <<"KeyError: ", "key_error">>,
           <<"AttributeError: ", "attribute_error">>, <<"ImportError: ", "import_error">>,
           <<"ModuleNotFoundError: ", "module_not_found_error">>,
           <<"IndentationError: ", "indentation_error">>,
           <<"ZeroDivisionError: ", "zero_division_error">>,
           <<"FileNotFoundError: ", "file_not_found_error">>,
           <<"PermissionError: ", "permission_error">>,
           <<"RecursionError: ", "recursion_error">>,
           <<"MemoryError: ", "memory_error">>,
           <<"KeyboardInterrupt: ", "keyboard_interrupt">> >>,
        "runtime_error")

JavaScriptType(text) ==
    FirstMatch(text,
        << <<"SyntaxError: ", "syntax_error">>, <<"ReferenceError: ", "reference_error">>,
           <<"TypeError: ", "type_error">>, <<"RangeError: ", "range_error">>,
           <<"EvalError: ", "eval_error">>, <<"URIError: ", "uri_error">>,
           <<"Error: ", "error">> >>,
        "runtime_error")

JavaType(text) ==
    IF Has(text, "ci:error:") THEN "compilation_error"
    ELSE IF Has(text, "Exception") THEN
        FirstMatch(text,
            << <<"NullPointerException", "null_pointer_exception">>,
               <<"ArrayIndexOutOfBoundsException", "array_index_out_of_bounds_exception">>,
               <<"StringIndexOutOfBoundsException", "string_index_out_of_bounds_exception">>,
               <<"NumberFormatException", "number_format_exception">>,
               <<"IllegalArgumentException", "illegal_argument_exception">>,
               <<"ClassCastException", "class_cast_exception">>,
               <<"ArithmeticException", "arithmetic_exception">>,
               <<"IOException", "io_exception">>,
               <<"FileNotFoundException", "file_not_found_exception">>,
               <<"SecurityException", "security_exception">>,
               <<"re:\\w+Exception", "exception">> >>,
            "runtime_error")
    ELSE "runtime_error"

CType(text) ==
    IF Has(text, "ci:error:") THEN "compilation_error"
    ELSE IF Has(text, "ci:warning:") THEN "compilation_warning"
    ELSE IF Has(text, "ci:undefined reference") THEN "linker_error"
    ELSE IF HasAny(text, {"ci:segmentation fault", "ci:segfault",
                          "ci:core dumped", "ci:aborted"}) THEN "runtime_error"
    ELSE "runtime_error"

RustType(text) ==
    IF Has(text, "ci:error:") THEN "compilation_error"
    ELSE IF Has(text, "ci:warning:") THEN "compilation_warning"
    ELSE IF Has(text, "panicked at") THEN "panic"
    ELSE IF HasAny(text, {"ci:segmentation fault", "ci:segfault",
                          "ci:core dumped", "ci:aborted"}) THEN "runtime_error"
    ELSE "runtime_error"

GoType(text) ==
    IF Has(text, "ci:syntax error:") THEN "syntax_error"
    ELSE IF Has(text, "re::N:N:") THEN "compilation_error"
    ELSE IF Has(text, "panic:") THEN "panic"
    ELSE IF Has(text, "runtime error:") THEN "runtime_error"
    ELSE "runtime_error"

CSharpType(text) ==
    IF Has(text, "error CS") THEN "compilation_error"
    ELSE IF Has(text, "Exception") THEN
        FirstMatch(text,
            << <<"NullReferenceException", "null_reference_exception">>,
               <<"ArgumentException", "argument_exception">>,
               <<"ArgumentNullException", "argument_null_exception">>,
               <<"IndexOutOfRangeException", "index_out_of_range_exception">>,
               <<"InvalidOperationException", "invalid_operation_exception">>,
               <<"FormatException", "format_exception">>,
               <<"OverflowException", "overflow_exception">>,
               <<"DivideByZeroException", "divide_by_zero_exception">>,
               <<"FileNotFoundException", "file_not_found_exception">>,
               <<"DirectoryNotFoundException", "directory_not_found_exception">>,
               <<"UnauthorizedAccessException", "unauthorized_access_exception">>,
               <<"re:\\w+Exception", "exception">> >>,
            "runtime_error")
    ELSE "runtime_error"

PhpType(text) ==
    IF Has(text, "Parse error:") THEN "parse_error"
    ELSE IF Has(text, "Fatal error:") THEN "fatal_error"
    ELSE IF Has(text, "Warning:") THEN "warning"
    ELSE IF Has(text, "Notice:") THEN "notice"
    ELSE "runtime_error"

RubyType(text) ==
    IF Has(text, "SyntaxError") THEN "syntax_error"
    ELSE IF HasAny(text, {"Error", "Exception"}) THEN
        FirstMatch(text,
            << <<"NoMethodError", "no_method_error">>, <<"NameError", "name_error">>,
               <<"ArgumentError", "argument_error">>, <<"TypeError", "type_error">>,
               <<"RuntimeError", "runtime_error">>, <<"StandardError", "standard_error">>,
               <<"LoadError", "load_error">>, <<"IOError", "io_error">>,
               <<"SystemCallError", "system_call_error">>,
               <<"ZeroDivisionError", "zero_division_error">>,
               <<"FloatDomainError", "float_domain_error">>,
               <<"RangeError", "range_error">>, <<"RegexpError", "regexp_error">>,
               <<"ThreadError", "thread_error">>, <<"FiberError", "fiber_error">>,
               <<"Interrupt", "interrupt">>, <<"SystemExit", "system_exit">>,
               <<"SystemStackError", "system_stack_error">>,
               <<"SecurityError", "security_error">>,
               <<"re:\\w+Error", "error">> >>,
            "runtime_error")
    ELSE "runtime_error"

RType(text) ==
    IF HasAny(text, {"ci:syntax error", "ci:unexpected"}) THEN "syntax_error"
    ELSE IF HasAny(text, {"ci:error:", "ci:error in"}) THEN "runtime_error"
    ELSE IF Has(text, "ci:object") /\ Has(text, "ci:not found") THEN "name_error"
    ELSE IF Has(text, "ci:there is no package called") THEN "import_error"
    ELSE IF Has(text, "ci:could not find function") THEN "name_error"
    ELSE IF Has(text, "ci:argument") /\ HasAny(text, {"ci:missing", "ci:unused"})
         THEN "argument_error"
    ELSE IF HasAny(text, {"ci:invalid type", "ci:non-numeric", "ci:non-conformable",
                          "ci:subscript out of bounds"}) THEN "type_error"
    ELSE "runtime_error"

TypeScriptType(text) ==
    IF Has(text, "error TS") THEN "compilation_error"
    ELSE IF Has(text, "SyntaxError") THEN "syntax_error"
    ELSE IF HasAny(text, {"Error", "Exception"}) THEN
        FirstMatch(text,
            << <<"ReferenceError", "reference_error">>, <<"TypeError", "type_error">>,
               <<"SyntaxError", "syntax_error">>, <<"RangeError", "range_error">>,
               <<"EvalError", "eval_error">>, <<"URIError", "uri_error">>,
               <<"re:\\w+Error", "error">> >>,
            "runtime_error")
    ELSE "runtime_error"

\* the error type a classifier reports for a non-blank error text
ClassifiedType(cls, text) ==
    CASE cls = "PythonExecutor"     -> PythonType(text)
      [] cls = "JavaScriptExecutor" -> JavaScriptType(text)
      [] cls = "JavaExecutor"       -> JavaType(text)
      [] cls = "CExecutor"          -> CType(text)
      [] cls = "RustExecutor"       -> RustType(text)
      [] cls = "GoExecutor"         -> GoType(text)
      [] cls = "CSharpExecutor"     -> CSharpType(text)
      [] cls = "PhpExecutor"        -> PhpType(text)
      [] cls = "RubyExecutor"       -> RubyType(text)
      [] cls = "RExecutor"          -> RType(text)
      [] cls = "TypeScriptExecutor" -> TypeScriptType(text)
      [] OTHER                      -> BaseType(text)

\* parse_error_output: "none" stands for the return value None
parse_error_output(cls, stderr, stdout) ==
    IF stderr = {} /\ stdout = {} THEN "none"
    ELSE ClassifiedType(cls, ErrorText(stderr, stdout))

(***************************************************************************)
(* State                                                                   *)
(***************************************************************************)
\* client threads calling ExecutionService.execute_code, one request each
Threads == {"t1"}

NoThread == "none"
NoDir == 0

VARIABLES
    executors,  \* ExecutionService.executors: language id -> executor class
    lock,       \* ExecutionService.execution_lock: its holder, or NoThread
    fs,         \* the workspace directories that exist: dir -> entries in it
    nextDir,    \* the next fresh directory name mkdtemp hands out
    pc,         \* pc[t]: where thread t is in execute_code
    req,        \* req[t]: the ExecutionRequest passed to execute_code
    installed,  \* installed[t]: the language's toolchain binary is on PATH
    sreq,       \* sreq[t]: sanitized_request
    ex,         \* ex[t]: the executor instance (class, timeout, temp_dir, temp_files)
    proc,       \* proc[t]: the process group of the current launch
    ret,        \* ret[t]: (stdout, stderr, return_code, timed_out) of the last launch
    cres,       \* cres[t]: (success, stdout, stderr) of the compile step
    results,    \* results[t]: the ExecutionResults execute_code returned
    raised,     \* raised[t]: an exception escaped execute_code
    spawns,     \* spawns[t]: the subprocesses spawned, in order
    made,       \* made[t]: the directories created for this execution
    wrote,      \* wrote[t]: the files and subdirectories written for it
    failed,     \* failed[t]: the failures met (validation, dispatch, fs, spawn)
    log,        \* log[t]: the warnings logged while serving the request
    probed,     \* probed[t]: what the toolchain probe of the request found
    elapsed,    \* elapsed[t]: the seconds the request's launches have taken
    usage,            \* UsageRepository: today's count of each action of the user
    execution_count,  \* session['execution_count']
    monitor,          \* the ResourceMonitor and the process tree it watches
    requests,         \* RateLimiter.requests: client -> admitted timestamps kept
    blocked_clients,  \* RateLimiter.blocked_clients: client -> unblock time
    last_cleanup,     \* RateLimiter.last_cleanup
    now,              \* time.time(), in seconds
    quota,            \* quota[c]: the limit and window every call for c passes
    admitted,         \* admitted[c]: the timestamps of the calls for c not limited
    answer,           \* what the last is_rate_limited call returned, and to whom
    calls             \* the number of is_rate_limited calls made

\* the state of the execution service and of its executors
serviceVars == <<executors, lock, fs, nextDir, pc, req, installed, sreq, ex, proc,
                 ret, cres, results, raised, spawns, made, wrote, failed, log,
                 probed, elapsed>>

\* the state of the /execute route
routeVars == <<usage, execution_count>>

\* the state of the rate limiter
limiterVars == <<requests, blocked_clients, last_cleanup, now, quota, admitted,
                 answer, calls>>

\* what the execution service never touches
peripheral == <<routeVars, monitor, limiterVars>>

vars == <<serviceVars, peripheral>>

\* no usage recorded and no execution counted
RouteIdle ==
    /\ usage = [code_generation |-> 0, ai_analysis |-> 0]
    /\ execution_count = 0

\* ResourceMonitor.__init__: no process is monitored
NoMonitor == [pc |-> "off", main |-> "none", children |-> <<>>, listed |-> {},
              monitoring |-> FALSE, violation |-> "none", log |-> {}]

MonitorIdle == monitor = NoMonitor

\* the client ids under which the rate_limit decorator calls is_rate_limited
Clients == {"c_minute", "c_hour"}

NoAnswer == [client |-> "none", limited |-> FALSE, retry_after |-> None]

\* RateLimiter.__init__, before any call: the clock stands at the time of
\* construction, counted as second 0
LimiterFresh ==
    /\ requests = [c \in {} |-> <<>>]
    /\ blocked_clients = [c \in {} |-> 0]
    /\ last_cleanup = 0
    /\ now = 0
    /\ admitted = [c \in Clients |-> <<>>]
    /\ answer = NoAnswer
    /\ calls = 0

LimiterIdle ==
    /\ LimiterFresh
    /\ quota = [c \in Clients |-> [limit |-> 1, window |-> 60]]

PeripheralInit == RouteIdle /\ MonitorIdle /\ LimiterIdle

\* the requests clients submit
RawLanguages ==
    {Id_python, Id_javascript, Id_java, Id_c, Id_csharp, Id_php, Id_ruby,
     Id_go, Id_rust, Id_r, Id_typescript,
     <<"R">>, <<"g","o","\n">>,                     \* sanitized to r and go
     Id_html, <<"c","o","b","o","l">>,              \* no executor
     <<"c","+","+">>, <<>>}                         \* malformed

\* "D" stands for a construct on the language's deny-list, "I" for a call of
\* Python's input(), "x" for harmless code, "NUL" for a null byte
Codes == {<<>>, <<" ">>, <<"x">>, <<"D">>, <<"I">>, <<"NUL","D">>, <<"NUL">>}

Inputs == {NoText, [some |-> TRUE, val |-> <<"x">>]}

Timeouts == {None, Some(5), Some(61)}

\* the languages submitted with stdin data, with an explicit timeout, and
\* with code that is a lone null byte
InputLanguages == {Id_python, Id_ruby}
TimeoutLanguages == {Id_python, Id_java}
NulLanguages == {Id_python}

Requests ==
    {r \in [language : RawLanguages, code : Codes, input : Inputs, timeout : Timeouts] :
        /\ (r.input.some \/ r.code = <<"I">>) => r.language \in InputLanguages
        /\ r.timeout.some => r.language \in TimeoutLanguages
        /\ r.code = <<"NUL">> => r.language \in NulLanguages}

\* sets of output a process writes
StdoutChoices == {{}, {"plain"}}
StderrChoices == {{}, {"plain"}, {"Diag"}}
ExitCodes == {0, 1}

\* a process group: the leader, and for every child it forked whether the
\* child is alive and whether it holds the leader's stdout/stderr pipes
NoProc == [leader |-> "none", descs |-> <<>>, rc |-> 0, out |-> {}, err |-> {}]
NoRet == [out |-> {}, err |-> {}, rc |-> 0, to |-> FALSE]
NoCres == [success |-> FALSE, out |-> {}, err |-> {}]
NoExecutor == [cls |-> "", timeout |-> 0, temp_dir |-> NoDir, temp_files |-> {}]
NoRequest == [language |-> <<>>, code |-> <<>>, input |-> NoText, timeout |-> None]

\* the import failures the service can meet while it is constructed
ImportFailures == {{}} \cup {{ExecutorModule(id)} : id \in DOMAIN AllExecutors}

\* the service after construction, its threads at the place start
ServiceInitAt(start) ==
    /\ \E f \in ImportFailures : executors = load_language_executors(f)
    /\ lock = NoThread
    /\ fs = [d \in {} |-> {}]
    /\ nextDir = 1
    /\ pc = [t \in Threads |-> start]
    /\ req = [t \in Threads |-> NoRequest]
    /\ installed = [t \in Threads |-> FALSE]
    /\ sreq = [t \in Threads |-> NoRequest]
    /\ ex = [t \in Threads |-> NoExecutor]
    /\ proc = [t \in Threads |-> NoProc]
    /\ ret = [t \in Threads |-> NoRet]
    /\ cres = [t \in Threads |-> NoCres]
    /\ results = [t \in Threads |-> <<>>]
    /\ raised = [t \in Threads |-> FALSE]
    /\ spawns = [t \in Threads |-> <<>>]
    /\ made = [t \in Threads |-> {}]
    /\ wrote = [t \in Threads |-> {}]
    /\ failed = [t \in Threads |-> {}]
    /\ log = [t \in Threads |-> {}]
    /\ probed = [t \in Threads |-> "none"]
    /\ elapsed = [t \in Threads |-> 0]

ServiceInit == ServiceInitAt("idle")

Init == ServiceInit /\ PeripheralInit

(***************************************************************************)
(* Results                                                                 *)
(***************************************************************************)
\* ExecutionResult: etype is error.type, "none" when error is None
Result(success, output, etype, timeout) ==
    [success |-> success, output |-> output, etype |-> etype, timeout |-> timeout]

\* create_error_result and the ExecutionResult(success=False, ...) literals
create_error_result(etype) == Result(FALSE, {}, etype, FALSE)

(***************************************************************************)
(* The order of the steps of each executor's execute()                     *)
(***************************************************************************)
Plan(cls) ==
    CASE cls \in {"PythonExecutor", "JavaScriptExecutor", "RExecutor"}
                                 -> <<"screen", "create", "run">>
      [] cls = "JavaExecutor"    -> <<"screen", "create", "compile", "run">>
      [] cls = "CExecutor"       -> <<"screen", "create", "probe", "compile", "run">>
      [] cls = "RustExecutor"    -> <<"mkdir", "probe", "screen", "create", "compile", "run">>
      [] cls = "GoExecutor"      -> <<"probe", "mkdir", "cachedirs", "screen", "create", "run">>
      [] cls = "CSharpExecutor"  -> <<"probe", "mkdir", "cachedirs", "screen", "project", "run">>
      [] cls \in {"PhpExecutor", "RubyExecutor", "TypeScriptExecutor"}
                                 -> <<"probe", "screen", "create", "run">>

\* the step that follows step cur in the plan of cls
NextStep(cls, cur) ==
    LET p == Plan(cls)
        i == CHOOSE k \in DOMAIN p : p[k] = cur
    IN  p[i + 1]

\* executors whose safety screen runs before the try/finally of execute()
ScreensOutsideTry == {"PythonExecutor", "JavaScriptExecutor"}

(***************************************************************************)
(* ExecutionService.execute_code                                           *)
(***************************************************************************)
Submit(t, r, inst) ==
    /\ pc[t] = "idle"
    /\ req' = [req EXCEPT ![t] = r]
    /\ installed' = [installed EXCEPT ![t] = inst]
    /\ pc' = [pc EXCEPT ![t] = "validate"]
    /\ UNCHANGED <<peripheral, executors, lock, fs, nextDir, sreq, ex, proc, ret, cres,
                   results, raised, spawns, made, wrote, failed, log, probed, elapsed>>

\* request.validate() and the validation_error return
Validate(t) ==
    /\ pc[t] = "validate"
    /\ IF validate(req[t]).valid
       THEN /\ pc' = [pc EXCEPT ![t] = "sanitize"]
            /\ UNCHANGED <<results, failed>>
       ELSE /\ results' = [results EXCEPT ![t] = Append(@, create_error_result("validation_error"))]
            /\ failed' = [failed EXCEPT ![t] = @ \cup {"validation"}]
            /\ pc' = [pc EXCEPT ![t] = "done"]
    /\ UNCHANGED <<peripheral, executors, lock, fs, nextDir, req, installed, sreq, ex, proc,
                   ret, cres, raised, spawns, made, wrote, log, probed, elapsed>>

\* a dispatch that looks at the registry only
DispatchErrorRegistryOnly(s, registry) ==
    IF s.language \notin DOMAIN registry THEN "executor_not_available" ELSE ""

\* the error type of the dispatch checks, "" when the request is dispatched
DispatchError(s, registry) ==
    IF ~get_language_by_id(s.language).some THEN "unsupported_language"
    ELSE IF s.language \notin DOMAIN registry THEN "executor_not_available"
    ELSE ""

\* request.sanitize(), get_language_by_id and the registry lookup
Dispatch(t) ==
    /\ pc[t] = "sanitize"
    /\ sreq' = [sreq EXCEPT ![t] = sanitize(req[t])]
    /\ LET e == DispatchError(sanitize(req[t]), executors)
       IN  IF e = ""
           THEN /\ pc' = [pc EXCEPT ![t] = "lock"]
                /\ UNCHANGED <<results, failed>>
           ELSE /\ results' = [results EXCEPT ![t] = Append(@, create_error_result(e))]
                /\ failed' = [failed EXCEPT ![t] = @ \cup {"dispatch"}]
                /\ pc' = [pc EXCEPT ![t] = "done"]
    /\ UNCHANGED <<peripheral, executors, lock, fs, nextDir, req, installed, ex, proc,
                   ret, cres, raised, spawns, made, wrote, log, probed, elapsed>>

\* timeout = sanitized_request.timeout or language.timeout_seconds
EffectiveTimeout(s) ==
    IF s.timeout.some /\ s.timeout.val # 0 THEN s.timeout.val
    ELSE get_language_by_id(s.language).val

\* with self.execution_lock: executor = executor_class(timeout=timeout)
Acquire(t) ==
    /\ pc[t] = "lock"
    /\ lock = NoThread
    /\ lock' = t
    /\ LET cls == executors[sreq[t].language]
       IN  /\ ex' = [ex EXCEPT ![t] = [cls |-> cls, timeout |-> EffectiveTimeout(sreq[t]),
                                       temp_dir |-> NoDir, temp_files |-> {}]]
           /\ pc' = [pc EXCEPT ![t] = Plan(cls)[1]]
    /\ UNCHANGED <<peripheral, executors, fs, nextDir, req, installed, sreq, proc, ret, cres,
                   results, raised, spawns, made, wrote, failed, log, probed, elapsed>>

\* return result: leaves the with block, which releases the lock
Return(t) ==
    /\ pc[t] = "svc_return"
    /\ lock' = NoThread
    /\ pc' = [pc EXCEPT ![t] = "done"]
    /\ UNCHANGED <<peripheral, executors, fs, nextDir, req, installed, sreq, ex, proc, ret,
                   cres, results, raised, spawns, made, wrote, failed, log, probed, elapsed>>

(***************************************************************************)
(* Workspace Manager (BaseExecutor.create_temp_file, cleanup_temp_files)   *)
(***************************************************************************)
Emit(t, res) == results' = [results EXCEPT ![t] = Append(@, res)]

\* except Exception in execute(): the executor_error result
ExecutorError == create_error_result("executor_error")

\* the outcomes of one attempt to make the workspace directory
DirOutcomes == {"ok", "mkfail", "chmodfail"}

\* one of the three attempts of create_temp_file to make temp_dir: mkdtemp
\* under /tmp, mkdtemp under the default root, makedirs under the cwd.  The
\* directory is assigned to temp_dir before chmod runs, so an attempt whose
\* chmod fails leaves its directory behind; the last attempt raises.
WorkdirAttempt(st, outcome, last) ==
    IF st.done \/ st.raised THEN st
    ELSE CASE outcome = "ok" ->
                [fs |-> st.fs @@ (st.next :> {}), next |-> st.next + 1,
                 dir |-> st.next, done |-> TRUE, raised |-> FALSE,
                 made |-> st.made \cup {st.next}]
           [] outcome = "mkfail" ->
                IF last
                THEN [st EXCEPT !.dir = st.next, !.next = st.next + 1, !.raised = TRUE]
                ELSE st
           [] outcome = "chmodfail" ->
                [fs |-> st.fs @@ (st.next :> {}), next |-> st.next + 1,
                 dir |-> st.next, done |-> FALSE, raised |-> last,
                 made |-> st.made \cup {st.next}]

\* if self.temp_dir is None: the three attempts in order
CreateWorkdir(f, n, o) ==
    LET st0 == [fs |-> f, next |-> n, dir |-> NoDir, done |-> FALSE,
                raised |-> FALSE, made |-> {}]
    IN  WorkdirAttempt(WorkdirAttempt(WorkdirAttempt(st0, o[1], FALSE), o[2], FALSE),
                       o[3], TRUE)

\* create_temp_file(code, filename), called inside the try of execute()
CreateTempFile(t) ==
    /\ pc[t] = "create"
    /\ \E o \in [1..3 -> DirOutcomes], writeOk \in BOOLEAN :
        LET w == IF ex[t].temp_dir = NoDir
                 THEN CreateWorkdir(fs, nextDir, o)
                 ELSE [fs |-> fs, next |-> nextDir, dir |-> ex[t].temp_dir,
                       done |-> TRUE, raised |-> FALSE, made |-> {}]
        IN  /\ nextDir' = w.next
            /\ made' = [made EXCEPT ![t] = @ \cup w.made]
            /\ IF ~w.raised /\ writeOk /\ w.dir \in DOMAIN w.fs
               THEN /\ fs' = [w.fs EXCEPT ![w.dir] = @ \cup {"code"}]
                    /\ wrote' = [wrote EXCEPT ![t] = @ \cup {<<w.dir, "code">>}]
                    /\ ex' = [ex EXCEPT ![t].temp_dir = w.dir,
                                        ![t].temp_files = @ \cup {<<w.dir, "code">>}]
                    /\ pc' = [pc EXCEPT ![t] = NextStep(ex[t].cls, "create")]
                    /\ UNCHANGED <<results, failed>>
               ELSE /\ fs' = w.fs
                    /\ ex' = [ex EXCEPT ![t].temp_dir = w.dir]
                    /\ Emit(t, ExecutorError)
                    /\ failed' = [failed EXCEPT ![t] = @ \cup {"fs"}]
                    /\ pc' = [pc EXCEPT ![t] = "cleanup"]
                    /\ UNCHANGED wrote
    /\ UNCHANGED <<peripheral, executors, lock, req, installed, sreq, proc, ret, cres,
                   raised, spawns, log, probed, elapsed>>

\* if self.temp_dir is None: self.temp_dir = tempfile.mkdtemp(dir="/tmp")
\* in the execute() of the Rust, Go and C# executors
MkTemp(t) ==
    /\ pc[t] = "mkdir"
    /\ \E ok \in BOOLEAN :
        IF ok
        THEN /\ fs' = fs @@ (nextDir :> {})
             /\ nextDir' = nextDir + 1
             /\ made' = [made EXCEPT ![t] = @ \cup {nextDir}]
             /\ ex' = [ex EXCEPT ![t].temp_dir = nextDir]
             /\ pc' = [pc EXCEPT ![t] = NextStep(ex[t].cls, "mkdir")]
             /\ UNCHANGED <<results, failed>>
        ELSE /\ Emit(t, ExecutorError)
             /\ failed' = [failed EXCEPT ![t] = @ \cup {"fs"}]
             /\ pc' = [pc EXCEPT ![t] = "cleanup"]
             /\ UNCHANGED <<fs, nextDir, made, ex>>
    /\ UNCHANGED <<peripheral, executors, lock, req, installed, sreq, proc, ret, cres,
                   raised, spawns, wrote, log, probed, elapsed>>

\* the cache directories of the Go and C# executors: under /home/appuser,
\* or inside the workspace when that is not writable
CacheDirNames(cls) ==
    IF cls = "GoExecutor" THEN {"go-cache", "go-path"} ELSE {"dotnet", "nuget"}

CacheDirs(t) ==
    /\ pc[t] = "cachedirs"
    /\ \E outcome \in {"home", "fallback", "fail"} :
        LET d == ex[t].temp_dir
            names == CacheDirNames(ex[t].cls)
        IN  CASE outcome = "home" ->
                    /\ pc' = [pc EXCEPT ![t] = NextStep(ex[t].cls, "cachedirs")]
                    /\ UNCHANGED <<fs, wrote, results, failed>>
              [] outcome = "fallback" ->
                    /\ fs' = [fs EXCEPT ![d] = @ \cup names]
                    /\ wrote' = [wrote EXCEPT ![t] = @ \cup {<<d, n>> : n \in names}]
                    /\ pc' = [pc EXCEPT ![t] = NextStep(ex[t].cls, "cachedirs")]
                    /\ UNCHANGED <<results, failed>>
              [] outcome = "fail" ->
                    /\ Emit(t, ExecutorError)
                    /\ failed' = [failed EXCEPT ![t] = @ \cup {"fs"}]
                    /\ pc' = [pc EXCEPT ![t] = "cleanup"]
                    /\ UNCHANGED <<fs, wrote>>
    /\ UNCHANGED <<peripheral, executors, lock, nextDir, req, installed, sreq, ex, proc, ret,
                   cres, raised, spawns, made, log, probed, elapsed>>

\* CSharpExecutor.create_project_files: Program.csproj and Program.cs
CreateProject(t) ==
    /\ pc[t] = "project"
    /\ \E ok \in BOOLEAN :
        LET d == ex[t].temp_dir
            names == {"Program.csproj", "Program.cs"}
        IN  IF ok
            THEN /\ fs' = [fs EXCEPT ![d] = @ \cup names]
                 /\ wrote' = [wrote EXCEPT ![t] = @ \cup {<<d, n>> : n \in names}]
                 /\ pc' = [pc EXCEPT ![t] = NextStep(ex[t].cls, "project")]
                 /\ UNCHANGED <<results, failed>>
            ELSE /\ Emit(t, ExecutorError)
                 /\ failed' = [failed EXCEPT ![t] = @ \cup {"fs"}]
                 /\ pc' = [pc EXCEPT ![t] = "cleanup"]
                 /\ UNCHANGED <<fs, wrote>>
    /\ UNCHANGED <<peripheral, executors, lock, nextDir, req, installed, sreq, ex, proc, ret,
                   cres, raised, spawns, made, log, probed, elapsed>>

\* a cleanup that removes the temp files and never the directory
FsAfterCleanupFilesOnly(f, e, removeOk, rmtreeOk) ==
    IF e.temp_dir \in DOMAIN f /\ removeOk
    THEN [f EXCEPT ![e.temp_dir] =
              @ \ {x[2] : x \in {y \in e.temp_files : y[1] = e.temp_dir}}]
    ELSE f

\* the directory tree after cleanup_temp_files: os.remove of each temp file,
\* then shutil.rmtree of temp_dir; both swallow (log) their failures
FsAfterCleanup(f, e, removeOk, rmtreeOk) ==
    IF e.temp_dir \in DOMAIN f
    THEN IF rmtreeOk
         THEN [d \in DOMAIN f \ {e.temp_dir} |-> f[d]]
         ELSE IF removeOk
              THEN [f EXCEPT ![e.temp_dir] =
                        @ \ {x[2] : x \in {y \in e.temp_files : y[1] = e.temp_dir}}]
              ELSE f
    ELSE f

\* a cleanup that calls rmtree without looking whether there is a directory
CleanupWarningsUnguarded(f, e, removeOk, rmtreeOk) ==
    (IF ~removeOk /\ \E x \in e.temp_files : x[1] \in DOMAIN f /\ x[2] \in f[x[1]]
     THEN {"Failed to remove temp file"} ELSE {})
    \cup
    (IF ~rmtreeOk THEN {"Failed to remove temp directory"} ELSE {})

\* the logger.warning calls of cleanup_temp_files
CleanupWarnings(f, e, removeOk, rmtreeOk) ==
    (IF ~removeOk /\ \E x \in e.temp_files : x[1] \in DOMAIN f /\ x[2] \in f[x[1]]
     THEN {"Failed to remove temp file"} ELSE {})
    \cup
    (IF e.temp_dir \in DOMAIN f /\ ~rmtreeOk
     THEN {"Failed to remove temp directory"} ELSE {})

\* a cleanup that removes the directory and goes on naming it
CleanupKeepsWorkspace(t) ==
    /\ pc[t] = "cleanup"
    /\ \E removeOk \in BOOLEAN, rmtreeOk \in BOOLEAN :
        /\ fs' = FsAfterCleanup(fs, ex[t], removeOk, rmtreeOk)
        /\ log' = [log EXCEPT ![t] = @ \cup CleanupWarnings(fs, ex[t], removeOk, rmtreeOk)]
    /\ pc' = [pc EXCEPT ![t] = "svc_return"]
    /\ UNCHANGED <<peripheral, executors, lock, nextDir, req, installed, sreq, ex, proc, ret,
                   cres, results, raised, spawns, made, wrote, failed, probed, elapsed>>

\* finally: self.cleanup_temp_files(), then execute() returns
Cleanup(t) ==
    /\ pc[t] = "cleanup"
    /\ \E removeOk \in BOOLEAN, rmtreeOk \in BOOLEAN :
        /\ fs' = FsAfterCleanup(fs, ex[t], removeOk, rmtreeOk)
        /\ log' = [log EXCEPT ![t] = @ \cup CleanupWarnings(fs, ex[t], removeOk, rmtreeOk)]
    /\ ex' = [ex EXCEPT ![t].temp_files = {}, ![t].temp_dir = NoDir]
    /\ pc' = [pc EXCEPT ![t] = "svc_return"]
    /\ UNCHANGED <<peripheral, executors, lock, nextDir, req, installed, sreq, proc, ret,
                   cres, results, raised, spawns, made, wrote, failed, probed, elapsed>>

(***************************************************************************)
(* Code Preparation: the safety screen and the toolchain probe             *)
(***************************************************************************)
\* validate_<language>_code: the code matches the language's deny-list.
\* validate_python_code also rejects input() when no input was supplied.
IsDenied(cls, code, input) ==
    \/ "D" \in Range(code)
    \/ cls = "PythonExecutor" /\ "I" \in Range(code) /\ ~input.some

Screen(t) ==
    /\ pc[t] = "screen"
    /\ IF IsDenied(ex[t].cls, sreq[t].code, sreq[t].input)
       THEN /\ Emit(t, create_error_result("security_error"))
            /\ pc' = [pc EXCEPT ![t] = IF ex[t].cls \in ScreensOutsideTry
                                       THEN "svc_return" ELSE "cleanup"]
       ELSE /\ pc' = [pc EXCEPT ![t] = NextStep(ex[t].cls, "screen")]
            /\ UNCHANGED results
    /\ UNCHANGED <<peripheral, executors, lock, fs, nextDir, req, installed, sreq, ex, proc,
                   ret, cres, raised, spawns, made, wrote, failed, log, probed, elapsed>>

\* what happens to one subprocess.run([binary, "--version"], timeout=5)
ProbeStatus == {"missing", "ok", "nonzero", "timeout"}

\* check_<toolchain>_availability of the Go, Ruby, PHP, C# and Rust executors
check_availability(st) ==
    [available |-> st[1] = "ok", nspawn |-> IF st[1] = "missing" THEN 0 ELSE 1]

\* CExecutor.check_compiler_availability: gcc, clang, cl in turn; cl counts
\* as available whatever it returns
RECURSIVE check_compiler_availability(_, _)
check_compiler_availability(st, i) ==
    IF i > Len(st) THEN [available |-> FALSE, nspawn |-> 0]
    ELSE LET rest == check_compiler_availability(st, i + 1)
             sp == IF st[i] = "missing" THEN 0 ELSE 1
         IN  IF st[i] = "ok" \/ (i = 3 /\ st[i] = "nonzero")
             THEN [available |-> TRUE, nspawn |-> sp]
             ELSE [available |-> rest.available, nspawn |-> sp + rest.nspawn]

\* TypeScriptExecutor.check_typescript_availability: ts-node, then tsc
check_typescript_availability(st) ==
    CASE st[1] = "missing" -> [available |-> FALSE, nspawn |-> 0]
      [] st[1] = "timeout" -> [available |-> FALSE, nspawn |-> 1]
      [] st[1] = "ok"      -> [available |-> TRUE, nspawn |-> 1]
      [] st[1] = "nonzero" ->
            [available |-> st[2] = "ok", nspawn |-> IF st[2] = "missing" THEN 1 ELSE 2]

ProbeResult(cls, st) ==
    CASE cls = "CExecutor"          -> check_compiler_availability(st, 1)
      [] cls = "TypeScriptExecutor" -> check_typescript_availability(st)
      [] OTHER                      -> check_availability(st)

\* the probe outcomes that agree with the toolchain being installed or not
ProbeStatuses(cls, inst) ==
    LET n == CASE cls = "CExecutor" -> 3 [] cls = "TypeScriptExecutor" -> 2 [] OTHER -> 1
        all == [1..n -> ProbeStatus]
    IN  IF ~inst THEN {[i \in 1..n |-> "missing"]}
        ELSE IF cls = "CExecutor" THEN {st \in all : \E i \in 1..n : st[i] # "missing"}
        ELSE {st \in all : st[1] # "missing"}

\* the toolchain probe and the "not found" return that follows it
Probe(t) ==
    /\ pc[t] = "probe"
    /\ \E st \in ProbeStatuses(ex[t].cls, installed[t]) :
        LET r == ProbeResult(ex[t].cls, st)
        IN  /\ spawns' = [spawns EXCEPT ![t] = @ \o [i \in 1..r.nspawn |-> "probe"]]
            /\ probed' = [probed EXCEPT ![t] = IF r.available THEN "available"
                                                ELSE "unavailable"]
            /\ IF r.available
               THEN /\ pc' = [pc EXCEPT ![t] = NextStep(ex[t].cls, "probe")]
                    /\ UNCHANGED <<results, cres>>
               ELSE IF ex[t].cls = "CExecutor"
               THEN \* compile_c returns (False, "", "C compiler not found. ...")
                    /\ cres' = [cres EXCEPT ![t] =
                                  [success |-> FALSE, out |-> {}, err |-> {"CompilerNotFound"}]]
                    /\ pc' = [pc EXCEPT ![t] = "compiled"]
                    /\ UNCHANGED results
               ELSE /\ Emit(t, create_error_result("runtime_error"))
                    /\ pc' = [pc EXCEPT ![t] = "cleanup"]
                    /\ UNCHANGED cres
    /\ UNCHANGED <<peripheral, executors, lock, fs, nextDir, req, installed, sreq, ex, proc,
                   ret, raised, made, wrote, failed, log, elapsed>>

(***************************************************************************)
(* Process Runner (BaseExecutor.execute_with_timeout)                      *)
(***************************************************************************)
\* the number of children the launched process forks into its group
MaxDescendants == 1

SIGTERM == 15
SIGKILL == 9

\* a launch failure that returns as a clean exit
SpawnFailureSilent == [out |-> {}, err |-> {}, rc |-> 0, to |-> FALSE]

\* except Exception: return "", f"Execution error: {e}", 1, False
SpawnFailure == [out |-> {}, err |-> {"ExecErr"}, rc |-> 1, to |-> FALSE]

\* a runner whose caller launches the same command again after a timeout
AfterLaunchRetrying(t) ==
    IF pc[t] = "final" THEN spawns[t][Len(spawns[t])]
    ELSE IF "run" \in Range(spawns[t]) \/ pc[t] = "run" THEN "ran" ELSE "compile_ret"

\* where execute_with_timeout returns to: the compile or the run handling
AfterLaunch(t) ==
    IF "run" \in Range(spawns[t]) \/ pc[t] = "run" THEN "ran" ELSE "compile_ret"

\* stdout and stderr reach end-of-file once nobody alive holds the pipes
PipesClosed(p) ==
    /\ p.leader # "alive"
    /\ \A i \in DOMAIN p.descs : ~(p.descs[i].alive /\ p.descs[i].pipes)

\* subprocess.Popen(command, ..., preexec_fn=os.setsid) for the compile
\* step or the run step; a missing binary or another OS error raises
Popen(t) ==
    /\ pc[t] \in {"compile", "run"}
    /\ \E ok \in BOOLEAN :
        IF ok /\ installed[t]
        THEN /\ spawns' = [spawns EXCEPT ![t] = Append(@, pc[t])]
             /\ proc' = [proc EXCEPT ![t] = [NoProc EXCEPT !.leader = "alive"]]
             /\ ret' = [ret EXCEPT ![t] = NoRet]
             /\ pc' = [pc EXCEPT ![t] = "communicate"]
             /\ UNCHANGED failed
        ELSE /\ ret' = [ret EXCEPT ![t] = SpawnFailure]
             /\ failed' = [failed EXCEPT ![t] = @ \cup {"spawn"}]
             /\ pc' = [pc EXCEPT ![t] = AfterLaunch(t)]
             /\ UNCHANGED <<spawns, proc>>
    /\ UNCHANGED <<peripheral, executors, lock, fs, nextDir, req, installed, sreq, ex, cres,
                   results, raised, made, wrote, log, probed, elapsed>>

\* the launched process forks a child that stays in its process group
Fork(t) ==
    /\ pc[t] = "communicate"
    /\ proc[t].leader = "alive"
    /\ Len(proc[t].descs) < MaxDescendants
    /\ \E holds \in BOOLEAN :
        proc' = [proc EXCEPT ![t].descs = Append(@, [alive |-> TRUE, pipes |-> holds])]
    /\ UNCHANGED <<peripheral, executors, lock, fs, nextDir, pc, req, installed, sreq, ex,
                   ret, cres, results, raised, spawns, made, wrote, failed, log, probed, elapsed>>

\* the launched process exits by itself
LeaderExit(t) ==
    /\ pc[t] \in {"communicate", "final"}
    /\ proc[t].leader = "alive"
    /\ \E rc \in ExitCodes, out \in StdoutChoices, err \in StderrChoices :
        proc' = [proc EXCEPT ![t].leader = "dead", ![t].rc = rc,
                             ![t].out = out, ![t].err = err]
    /\ UNCHANGED <<peripheral, executors, lock, fs, nextDir, pc, req, installed, sreq, ex,
                   ret, cres, results, raised, spawns, made, wrote, failed, log, probed, elapsed>>

\* the forked child exits by itself
DescExit(t) ==
    /\ pc[t] \in {"communicate", "final"}
    /\ \E i \in DOMAIN proc[t].descs :
        /\ proc[t].descs[i].alive
        /\ proc' = [proc EXCEPT ![t].descs[i].alive = FALSE]
    /\ UNCHANGED <<peripheral, executors, lock, fs, nextDir, pc, req, installed, sreq, ex,
                   ret, cres, results, raised, spawns, made, wrote, failed, log, probed, elapsed>>

\* process.wait(timeout=2): the grace window, in seconds
GracePeriod == 2

\* the most seconds a launch takes when it returns within a deadline of T
\* seconds; elapsed charges every launch that returns in time with them
LongestInTime(T) == T - 1

\* process.communicate(input, timeout=self.timeout) returns in time
CommunicateReturns(t) ==
    /\ pc[t] = "communicate"
    /\ PipesClosed(proc[t])
    /\ elapsed' = [elapsed EXCEPT ![t] = @ + LongestInTime(ex[t].timeout)]
    /\ ret' = [ret EXCEPT ![t] = [out |-> proc[t].out, err |-> proc[t].err,
                                  rc |-> proc[t].rc, to |-> FALSE]]
    /\ pc' = [pc EXCEPT ![t] = AfterLaunch(t)]
    /\ UNCHANGED <<peripheral, executors, lock, fs, nextDir, req, installed, sreq, ex, proc,
                   cres, results, raised, spawns, made, wrote, failed, log, probed>>

\* except subprocess.TimeoutExpired: timed_out = True
DeadlineExpires(t) ==
    /\ pc[t] = "communicate"
    /\ ~PipesClosed(proc[t])
    /\ elapsed' = [elapsed EXCEPT ![t] = @ + ex[t].timeout]
    /\ ret' = [ret EXCEPT ![t] = [NoRet EXCEPT !.to = TRUE]]
    /\ pc' = [pc EXCEPT ![t] = "sigterm"]
    /\ UNCHANGED <<peripheral, executors, lock, fs, nextDir, req, installed, sreq, ex, proc,
                   cres, results, raised, spawns, made, wrote, failed, log, probed>>

\* how a process reacts to SIGTERM within the grace window: it is killed,
\* it handles the signal and exits 0, or it stays alive
TermReactions == {"dies", "exit0", "ignores"}

\* the process group after the signal sig reached every live member
Signalled(p, sig, leaderReaction, descReaction, out, err) ==
    LET leaderGoes == p.leader = "alive" /\ (sig = SIGKILL \/ leaderReaction # "ignores")
    IN  [leader |-> IF leaderGoes THEN "dead" ELSE p.leader,
         descs  |-> [i \in DOMAIN p.descs |->
                        [p.descs[i] EXCEPT !.alive =
                            @ /\ sig # SIGKILL /\ descReaction[i] = "ignores"]],
         rc     |-> IF ~leaderGoes THEN p.rc
                    ELSE IF sig = SIGTERM /\ leaderReaction = "exit0" THEN 0
                    ELSE 0 - sig,
         out    |-> IF leaderGoes THEN out ELSE p.out,
         err    |-> IF leaderGoes THEN err ELSE p.err]

\* a SIGTERM whose OS-level failure reaches the outer except Exception
SigTermRaising(t) ==
    /\ pc[t] = "sigterm"
    /\ \E sent \in BOOLEAN, lr \in TermReactions,
          dr \in [DOMAIN proc[t].descs -> {"dies", "ignores"}],
          out \in StdoutChoices, err \in StderrChoices :
        IF sent
        THEN /\ proc' = [proc EXCEPT ![t] = Signalled(@, SIGTERM, lr, dr, out, err)]
             /\ pc' = [pc EXCEPT ![t] = "wait"]
             /\ UNCHANGED <<log, ret>>
        ELSE /\ pc' = [pc EXCEPT ![t] = AfterLaunch(t)]
             /\ log' = [log EXCEPT ![t] = @ \cup {"Error terminating process"}]
             /\ ret' = [ret EXCEPT ![t] = SpawnFailure]
             /\ UNCHANGED proc
    /\ UNCHANGED <<peripheral, executors, lock, fs, nextDir, req, installed, sreq, ex,
                   cres, results, raised, spawns, made, wrote, failed, probed, elapsed>>

\* os.killpg(os.getpgid(process.pid), signal.SIGTERM); an OS-level failure
\* is caught by except (ProcessLookupError, OSError) and only logged
SigTerm(t) ==
    /\ pc[t] = "sigterm"
    /\ \E sent \in BOOLEAN, lr \in TermReactions,
          dr \in [DOMAIN proc[t].descs -> {"dies", "ignores"}],
          out \in StdoutChoices, err \in StderrChoices :
        IF sent
        THEN /\ proc' = [proc EXCEPT ![t] = Signalled(@, SIGTERM, lr, dr, out, err)]
             /\ pc' = [pc EXCEPT ![t] = "wait"]
             /\ UNCHANGED log
        ELSE /\ pc' = [pc EXCEPT ![t] = "final"]
             /\ log' = [log EXCEPT ![t] = @ \cup {"Error terminating process"}]
             /\ UNCHANGED proc
    /\ UNCHANGED <<peripheral, executors, lock, fs, nextDir, req, installed, sreq, ex, ret,
                   cres, results, raised, spawns, made, wrote, failed, probed, elapsed>>

\* process.wait(timeout=2): returns when the leader is gone, else raises
\* TimeoutExpired
GraceWait(t) ==
    /\ pc[t] = "wait"
    /\ pc' = [pc EXCEPT ![t] = IF proc[t].leader = "alive" THEN "sigkill" ELSE "final"]
    /\ elapsed' = [elapsed EXCEPT ![t] = IF proc[t].leader = "alive"
                                          THEN @ + GracePeriod ELSE @]
    /\ UNCHANGED <<peripheral, executors, lock, fs, nextDir, req, installed, sreq, ex, proc,
                   ret, cres, results, raised, spawns, made, wrote, failed, log, probed>>

\* os.killpg(os.getpgid(process.pid), signal.SIGKILL); process.wait()
SigKill(t) ==
    /\ pc[t] = "sigkill"
    /\ \E sent \in BOOLEAN, out \in StdoutChoices, err \in StderrChoices :
        IF sent
        THEN /\ proc' = [proc EXCEPT ![t] =
                        Signalled(@, SIGKILL, "dies", [i \in DOMAIN @.descs |-> "dies"], out, err)]
             /\ UNCHANGED log
        ELSE /\ log' = [log EXCEPT ![t] = @ \cup {"Error terminating process"}]
             /\ UNCHANGED proc
    /\ pc' = [pc EXCEPT ![t] = "final"]
    /\ UNCHANGED <<peripheral, executors, lock, fs, nextDir, req, installed, sreq, ex, ret,
                   cres, results, raised, spawns, made, wrote, failed, probed, elapsed>>

\* stdout, stderr = process.communicate(); stderr += "\nExecution timed out ..."
FinalCommunicate(t) ==
    /\ pc[t] = "final"
    /\ PipesClosed(proc[t])
    /\ ret' = [ret EXCEPT ![t] = [out |-> proc[t].out,
                                  err |-> proc[t].err \cup {"TimeoutNotice"},
                                  rc |-> proc[t].rc, to |-> TRUE]]
    /\ pc' = [pc EXCEPT ![t] = AfterLaunch(t)]
    /\ UNCHANGED <<peripheral, executors, lock, fs, nextDir, req, installed, sreq, ex, proc,
                   cres, results, raised, spawns, made, wrote, failed, log, probed, elapsed>>

(***************************************************************************)
(* Compiler/Interpreter Driver: what execute() does with a launch's return *)
(***************************************************************************)
\* a compile step that looks at the exit code only
CompileSuccessIgnoringTimeout(r) == r.rc = 0

\* compile_c / compile_java / compile_rust: success = return_code == 0 and
\* not timed_out
CompileSuccess(r) == r.rc = 0 /\ ~r.to

\* compile_c / compile_java / compile_rust return (success, stdout, stderr)
CompileReturns(t) ==
    /\ pc[t] = "compile_ret"
    /\ cres' = [cres EXCEPT ![t] = [success |-> CompileSuccess(ret[t]),
                                    out |-> ret[t].out, err |-> ret[t].err]]
    /\ pc' = [pc EXCEPT ![t] = "compiled"]
    /\ UNCHANGED <<peripheral, executors, lock, fs, nextDir, req, installed, sreq, ex, proc,
                   ret, results, raised, spawns, made, wrote, failed, log, probed, elapsed>>

\* if not compile_success: the result built from the compiler's output
CompileFailureResult(cls, c) ==
    Result(FALSE, c.out, parse_error_output(cls, c.err, c.out), FALSE)

\* execute() after the compile step: report the failure or go on to run
AfterCompile(t) ==
    /\ pc[t] = "compiled"
    /\ IF cres[t].success
       THEN \* the compiler's output is dropped
            /\ cres' = [cres EXCEPT ![t].out = {}, ![t].err = {}]
            /\ pc' = [pc EXCEPT ![t] = "run"]
            /\ UNCHANGED results
       ELSE /\ Emit(t, CompileFailureResult(ex[t].cls, cres[t]))
            /\ pc' = [pc EXCEPT ![t] = "cleanup"]
            /\ UNCHANGED cres
    /\ UNCHANGED <<peripheral, executors, lock, fs, nextDir, req, installed, sreq, ex, proc,
                   ret, raised, spawns, made, wrote, failed, log, probed, elapsed>>

\* a run result whose output also tells whether an earlier execution has
\* produced a result
RunResultAfterEarlier(cls, r) ==
    LET out == IF \E u \in DOMAIN results : results[u] # <<>>
               THEN r.out \cup {"earlier"} ELSE r.out
    IN  IF r.to THEN Result(FALSE, out, "timeout_error", TRUE)
        ELSE IF r.rc # 0 \/ r.err # {}
             THEN Result(FALSE, out, parse_error_output(cls, r.err, r.out), FALSE)
        ELSE Result(TRUE, out, "none", FALSE)

\* the result execute() builds from the run step's return: the timeout
\* branch, the error branch and the success branch
RunResult(cls, r) ==
    IF r.to THEN Result(FALSE, r.out, "timeout_error", TRUE)
    ELSE IF r.rc # 0 \/ r.err # {}
         THEN Result(FALSE, r.out, parse_error_output(cls, r.err, r.out), FALSE)
    ELSE Result(TRUE, r.out, "none", FALSE)

\* an execute() that takes the run step's exit code alone for success
AfterRunExitCodeOnly(t) ==
    /\ pc[t] = "ran"
    /\ Emit(t, IF ret[t].rc = 0 /\ ~ret[t].to
               THEN Result(TRUE, ret[t].out, "none", FALSE)
               ELSE RunResult(ex[t].cls, ret[t]))
    /\ pc' = [pc EXCEPT ![t] = "cleanup"]
    /\ UNCHANGED <<peripheral, executors, lock, fs, nextDir, req, installed, sreq, ex, proc,
                   ret, cres, raised, spawns, made, wrote, failed, log, probed, elapsed>>

\* execute() after the run step
AfterRun(t) ==
    /\ pc[t] = "ran"
    /\ Emit(t, RunResult(ex[t].cls, ret[t]))
    /\ pc' = [pc EXCEPT ![t] = "cleanup"]
    /\ UNCHANGED <<peripheral, executors, lock, fs, nextDir, req, installed, sreq, ex, proc,
                   ret, cres, raised, spawns, made, wrote, failed, log, probed, elapsed>>

(***************************************************************************)
(* Specification                                                           *)
(***************************************************************************)
Next ==
    \E t \in Threads :
        \/ \E r \in Requests, inst \in BOOLEAN : Submit(t, r, inst)
        \/ Validate(t)
        \/ Dispatch(t)
        \/ Acquire(t)
        \/ Probe(t)
        \/ MkTemp(t)
        \/ CacheDirs(t)
        \/ Screen(t)
        \/ CreateTempFile(t)
        \/ CreateProject(t)
        \/ Popen(t)
        \/ Fork(t)
        \/ LeaderExit(t)
        \/ DescExit(t)
        \/ CommunicateReturns(t)
        \/ DeadlineExpires(t)
        \/ SigTerm(t)
        \/ GraceWait(t)
        \/ SigKill(t)
        \/ FinalCommunicate(t)
        \/ CompileReturns(t)
        \/ AfterCompile(t)
        \/ AfterRun(t)
        \/ Cleanup(t)
        \/ Return(t)

Spec == Init /\ [][Next]_vars

(***************************************************************************)
(* Two request threads calling execute_code of the one ExecutionService    *)
(***************************************************************************)
Workers == {"t1", "t2"}

\* the requests the two threads submit
ConcRequests ==
    {r \in Requests : /\ r.language \in {Id_java, Id_csharp}
                      /\ r.code = <<"x">>
                      /\ ~r.timeout.some}

\* the programs the two threads launch fork no children and write nothing
\* to stderr
Quiet(p) == p.err = {}

ConcInit ==
    /\ executors = load_language_executors({})
    /\ lock = NoThread
    /\ fs = [d \in {} |-> {}]
    /\ nextDir = 1
    /\ pc = [t \in Workers |-> "idle"]
    /\ req = [t \in Workers |-> NoRequest]
    /\ installed = [t \in Workers |-> FALSE]
    /\ sreq = [t \in Workers |-> NoRequest]
    /\ ex = [t \in Workers |-> NoExecutor]
    /\ proc = [t \in Workers |-> NoProc]
    /\ ret = [t \in Workers |-> NoRet]
    /\ cres = [t \in Workers |-> NoCres]
    /\ results = [t \in Workers |-> <<>>]
    /\ raised = [t \in Workers |-> FALSE]
    /\ spawns = [t \in Workers |-> <<>>]
    /\ made = [t \in Workers |-> {}]
    /\ wrote = [t \in Workers |-> {}]
    /\ failed = [t \in Workers |-> {}]
    /\ log = [t \in Workers |-> {}]
    /\ probed = [t \in Workers |-> "none"]
    /\ elapsed = [t \in Workers |-> 0]
    /\ PeripheralInit

ConcNext ==
    \E t \in Workers :
        \/ \E r \in ConcRequests : Submit(t, r, TRUE)
        \/ Validate(t)
        \/ Dispatch(t)
        \/ Acquire(t)
        \/ Probe(t)
        \/ MkTemp(t)
        \/ CacheDirs(t)
        \/ Screen(t)
        \/ CreateTempFile(t)
        \/ CreateProject(t)
        \/ Popen(t)
        \/ LeaderExit(t) /\ Quiet(proc'[t])
        \/ CommunicateReturns(t)
        \/ DeadlineExpires(t)
        \/ SigTerm(t) /\ Quiet(proc'[t])
        \/ GraceWait(t)
        \/ SigKill(t) /\ Quiet(proc'[t])
        \/ FinalCommunicate(t)
        \/ CompileReturns(t)
        \/ AfterCompile(t)
        \/ AfterRun(t)
        \/ Cleanup(t)
        \/ Return(t)

ConcSpec == ConcInit /\ [][ConcNext]_vars

TypeOK ==
    /\ lock \in Workers \cup {NoThread}
    /\ \A t \in DOMAIN results : Len(results[t]) <= 1

(***************************************************************************)
(* Progress: the thread inside execute_with_timeout takes its next step    *)
(* whenever that step can be taken.  Nothing is assumed of the launched    *)
(* processes: they may run, fork and hold their pipes for ever.            *)
(***************************************************************************)
RunnerStep(t) ==
    \/ CommunicateReturns(t)
    \/ DeadlineExpires(t)
    \/ SigTerm(t)
    \/ GraceWait(t)
    \/ SigKill(t)
    \/ FinalCommunicate(t)

LiveSpec == Spec /\ \A t \in Threads : WF_vars(RunnerStep(t))

(***************************************************************************)
(* cleanup_temp_files called once more on an executor that execute() has   *)
(* already cleaned up                                                      *)
(***************************************************************************)
\* executor.cleanup_temp_files() after execute() has returned
CleanupAgain(t) ==
    /\ pc[t] = "svc_return"
    /\ ex[t].cls # ""
    /\ \E removeOk \in BOOLEAN, rmtreeOk \in BOOLEAN :
        /\ fs' = FsAfterCleanup(fs, ex[t], removeOk, rmtreeOk)
        /\ log' = [log EXCEPT ![t] = @ \cup CleanupWarnings(fs, ex[t], removeOk, rmtreeOk)]
    /\ ex' = [ex EXCEPT ![t].temp_files = {}, ![t].temp_dir = NoDir]
    /\ pc' = [pc EXCEPT ![t] = "cleaned_again"]
    /\ UNCHANGED <<peripheral, executors, lock, nextDir, req, installed, sreq, proc, ret,
                   cres, results, raised, spawns, made, wrote, failed, probed, elapsed>>

CleanupNext ==
    \/ Next
    \/ \E t \in Threads : CleanupAgain(t)

CleanupSpec == Init /\ [][CleanupNext]_vars

(***************************************************************************)
(* The /execute route around execute_code: the free-plan quota before the  *)
(* call, the usage counters and the session's execution_count after it     *)
(***************************************************************************)
\* free_plan.features.get('executionLimit', 5)
ExecutionLimit == 5

\* free_plan.features.get('aiAnalysisLimit', 5)
AiAnalysisLimit == 5

\* the user has used n executions and n analyses today when the request
\* arrives
RouteInit ==
    /\ ServiceInitAt("route")
    /\ \E n \in {0, ExecutionLimit} : usage = [code_generation |-> n, ai_analysis |-> n]
    /\ execution_count = 0
    /\ MonitorIdle
    /\ LimiterIdle

\* neither quota check of the route returns 429
QuotaLeft ==
    /\ usage.code_generation < ExecutionLimit
    /\ usage.ai_analysis < AiAnalysisLimit

\* both quota checks pass: the route goes on to call execute_code
RouteAdmit(t) ==
    /\ pc[t] = "route"
    /\ QuotaLeft
    /\ pc' = [pc EXCEPT ![t] = "idle"]
    /\ UNCHANGED <<executors, lock, fs, nextDir, req, installed, sreq, ex, proc, ret,
                   cres, results, raised, spawns, made, wrote, failed, log, probed,
                   elapsed, peripheral>>

\* the route answers 429 and execute_code is not called
RouteQuotaExceeded(t) ==
    /\ pc[t] = "route"
    /\ ~QuotaLeft
    /\ pc' = [pc EXCEPT ![t] = "responded"]
    /\ UNCHANGED <<executors, lock, fs, nextDir, req, installed, sreq, ex, proc, ret,
                   cres, results, raised, spawns, made, wrote, failed, log, probed,
                   elapsed, peripheral>>

\* after execute_code has returned, whatever its result: increment_usage
\* for both actions and session['execution_count'] += 1
RouteAccount(t) ==
    /\ pc[t] = "done"
    /\ usage' = [code_generation |-> usage.code_generation + 1,
                 ai_analysis |-> usage.ai_analysis + 1]
    /\ execution_count' = execution_count + 1
    /\ pc' = [pc EXCEPT ![t] = "responded"]
    /\ UNCHANGED <<executors, lock, fs, nextDir, req, installed, sreq, ex, proc, ret,
                   cres, results, raised, spawns, made, wrote, failed, log, probed,
                   elapsed, monitor, limiterVars>>

RouteNext ==
    \/ Next
    \/ \E t \in Threads : RouteAdmit(t)
    \/ \E t \in Threads : RouteQuotaExceeded(t)
    \/ \E t \in Threads : RouteAccount(t)

RouteSpec == RouteInit /\ [][RouteNext]_vars

(***************************************************************************)
(* parse_error_output applied to the error texts of a failed run           *)
(***************************************************************************)
\* the lines an error text is made of
ClassifierPhrases == {"PySyntax", "PyIndent", "PyName", "RNotFound", "Segfault",
                      "RustPanic", "JavaNpe", "Diag"}

ExecutorClasses == {AllExecutors[id] : id \in DOMAIN AllExecutors \ {Id_cpp}}

\* a run that exited 1 with the text on stderr has just returned to execute()
ClassifyInit ==
    /\ executors = AllExecutors
    /\ lock = NoThread
    /\ fs = [d \in {} |-> {}]
    /\ nextDir = 1
    /\ req = [t \in Threads |-> NoRequest]
    /\ installed = [t \in Threads |-> TRUE]
    /\ sreq = [t \in Threads |-> NoRequest]
    /\ proc = [t \in Threads |-> NoProc]
    /\ cres = [t \in Threads |-> NoCres]
    /\ results = [t \in Threads |-> <<>>]
    /\ raised = [t \in Threads |-> FALSE]
    /\ spawns = [t \in Threads |-> <<>>]
    /\ made = [t \in Threads |-> {}]
    /\ wrote = [t \in Threads |-> {}]
    /\ failed = [t \in Threads |-> {}]
    /\ log = [t \in Threads |-> {}]
    /\ probed = [t \in Threads |-> "none"]
    /\ elapsed = [t \in Threads |-> 0]
    /\ PeripheralInit
    /\ \E c \in [Threads -> ExecutorClasses],
          text \in [Threads -> (SUBSET ClassifierPhrases) \ {{}}] :
        /\ ex = [t \in Threads |-> [NoExecutor EXCEPT !.cls = c[t], !.timeout = 30]]
        /\ ret = [t \in Threads |-> [out |-> {}, err |-> text[t], rc |-> 1, to |-> FALSE]]
        /\ pc = [t \in Threads |-> "ran"]

ClassifyNext == \E t \in Threads : AfterRun(t)

ClassifySpec == ClassifyInit /\ [][ClassifyNext]_vars

\* the tests of the compilation/syntax branches of a classifier
CompileMarkers(cls) ==
    CASE cls = "PythonExecutor" -> {"SyntaxError: ", "IndentationError: "}
      [] cls = "CExecutor"      -> {"ci:error:", "ci:warning:", "ci:undefined reference"}
      [] cls = "RustExecutor"   -> {"ci:error:", "ci:warning:"}
      [] cls = "RExecutor"      -> {"ci:syntax error", "ci:unexpected"}

\* the text matches a named runtime exception or panic test of a classifier
HasNamedMarker(cls, text) ==
    CASE cls = "PythonExecutor" ->
            HasAny(text, {"NameError: ", "TypeError: ", "ValueError: ", "IndexError: ",
                          "KeyError: ", "AttributeError: ", "ImportError: ",
                          "ModuleNotFoundError: ", "ZeroDivisionError: ",
                          "FileNotFoundError: ", "PermissionError: ",
                          "RecursionError: ", "MemoryError: ", "KeyboardInterrupt: "})
      [] cls = "CExecutor"      -> FALSE
      [] cls = "RustExecutor"   -> Has(text, "panicked at")
      [] cls = "RExecutor"      ->
            \/ Has(text, "ci:object") /\ Has(text, "ci:not found")
            \/ Has(text, "ci:there is no package called")
            \/ Has(text, "ci:could not find function")
            \/ Has(text, "ci:argument") /\ HasAny(text, {"ci:missing", "ci:unused"})
            \/ HasAny(text, {"ci:invalid type", "ci:non-numeric", "ci:non-conformable",
                             "ci:subscript out of bounds"})

\* the error types of the compilation/syntax category
CompileTypes == {"syntax_error", "indentation_error", "compilation_error",
                 "compilation_warning", "linker_error"}

\* the classifiers whose categories are listed above
PriorityChecked == {"PythonExecutor", "CExecutor", "RustExecutor", "RExecutor"}

(***************************************************************************)
(* Resource Limiter: the ResourceMonitor watching a process, and what it   *)
(* does on the first violation of a limit                                  *)
(***************************************************************************)
\* the most processes the monitored process and its descendants fork
MaxChildren == 2

\* the limits _check_resources checks, in its order
ViolationTypes == {"execution_time", "memory", "cpu", "open_files", "processes"}

\* how a process reacts to terminate() within the half second the monitor
\* sleeps
TerminateReactions == {"dies", "ignores"}

\* a field of the monitor changes and the rest of the system stands still
MonitorStep(m) ==
    /\ monitor' = m
    /\ UNCHANGED <<serviceVars, routeVars, limiterVars>>

\* monitor_execution(process): the monitor thread starts watching
MonitorInit ==
    /\ monitor = [NoMonitor EXCEPT !.pc = "watch", !.main = "running",
                                   !.monitoring = TRUE]
    /\ ServiceInit /\ executors = AllExecutors
    /\ RouteIdle
    /\ LimiterIdle

TreeAlive(m) == m.main = "running" \/ \E i \in DOMAIN m.children : m.children[i].alive

\* the monitored process or one of its descendants forks
MonSpawn ==
    /\ monitor.pc \notin {"off", "done"}
    /\ TreeAlive(monitor)
    /\ Len(monitor.children) < MaxChildren
    /\ MonitorStep([monitor EXCEPT !.children = Append(@, [alive |-> TRUE])])

\* the monitored process exits by itself
MonMainExit ==
    /\ monitor.pc \notin {"off", "done"}
    /\ monitor.main = "running"
    /\ MonitorStep([monitor EXCEPT !.main = "dead"])

\* a descendant exits by itself
MonChildExit ==
    /\ monitor.pc \notin {"off", "done"}
    /\ \E i \in DOMAIN monitor.children :
        /\ monitor.children[i].alive
        /\ MonitorStep([monitor EXCEPT !.children[i].alive = FALSE])

\* _check_resources finds a limit exceeded and calls _handle_violation,
\* which logs, calls the callback (an exception of it is only logged) and
\* enters _terminate_process.  The time limit is checked before the
\* process is looked at; the other checks need the process to exist.
MonViolation ==
    /\ monitor.pc = "watch"
    /\ monitor.monitoring
    /\ \E v \in ViolationTypes, callbackRaises \in BOOLEAN :
        /\ v = "execution_time" \/ monitor.main = "running"
        /\ MonitorStep([monitor EXCEPT
               !.violation = v,
               !.log = @ \cup {"Resource limit violation"}
                         \cup (IF callbackRaises THEN {"Error in violation callback"}
                               ELSE {}),
               !.pc = "list"])

\* _terminate_process gives up: except (NoSuchProcess, AccessDenied) logs a
\* warning, and _handle_violation stops monitoring
MonGiveUp(m) ==
    [m EXCEPT !.log = @ \cup {"Could not terminate process"},
              !.monitoring = FALSE, !.pc = "done"]

\* children = self.process.children(recursive=True)
MonListChildren ==
    /\ monitor.pc = "list"
    /\ \E denied \in BOOLEAN :
        IF monitor.main # "running" \/ denied
        THEN MonitorStep(MonGiveUp(monitor))
        ELSE MonitorStep([monitor EXCEPT
                 !.listed = {i \in DOMAIN monitor.children : monitor.children[i].alive},
                 !.pc = "term_children"])

\* for child in children: child.terminate(), NoSuchProcess and AccessDenied
\* passed over
MonTerminateChildren ==
    /\ monitor.pc = "term_children"
    /\ \E r \in [monitor.listed -> TerminateReactions] :
        MonitorStep([monitor EXCEPT
            !.children = [i \in DOMAIN @ |->
                             IF i \in monitor.listed /\ r[i] = "dies"
                             THEN [@[i] EXCEPT !.alive = FALSE] ELSE @[i]],
            !.pc = "term_main"])

\* self.process.terminate(); time.sleep(0.5)
MonTerminateMain ==
    /\ monitor.pc = "term_main"
    /\ IF monitor.main # "running"
       THEN MonitorStep(MonGiveUp(monitor))
       ELSE \E r \in TerminateReactions :
               MonitorStep([monitor EXCEPT
                   !.main = IF r = "dies" THEN "dead" ELSE @,
                   !.pc = "sleep"])

\* if self.process.is_running(): the kill branch is entered only when the
\* monitored process itself is still running after the sleep
MonAfterSleep ==
    /\ monitor.pc = "sleep"
    /\ IF monitor.main = "running"
       THEN MonitorStep([monitor EXCEPT !.pc = "kill"])
       ELSE MonitorStep([monitor EXCEPT
                !.log = @ \cup {"Process terminated"},
                !.monitoring = FALSE, !.pc = "done"])

\* child.kill() for each listed child still running, then
\* self.process.kill()
MonKill ==
    /\ monitor.pc = "kill"
    /\ MonitorStep([monitor EXCEPT
           !.children = [i \in DOMAIN @ |->
                            IF i \in monitor.listed
                            THEN [@[i] EXCEPT !.alive = FALSE] ELSE @[i]],
           !.main = "dead",
           !.log = @ \cup {"Process terminated"},
           !.monitoring = FALSE,
           !.pc = "done"])

MonitorNext ==
    \/ MonSpawn
    \/ MonMainExit
    \/ MonChildExit
    \/ MonViolation
    \/ MonListChildren
    \/ MonTerminateChildren
    \/ MonTerminateMain
    \/ MonAfterSleep
    \/ MonKill

MonitorSpec == MonitorInit /\ [][MonitorNext]_vars

(***************************************************************************)
(* Rate Limiter (RateLimiter.is_rate_limited and _cleanup_old_requests)    *)
(***************************************************************************)
\* the number of is_rate_limited calls of a behaviour
MaxCalls == 4

\* the largest limit a client is given
MaxLimit == 2

\* self.cleanup_interval = 300
cleanup_interval == 300

\* cutoff_time = current_time - 3600
RetentionSeconds == 3600

\* the windows the decorator passes for the _minute and the _hour client
MinuteWindow == 60
HourWindow == 3600

WindowOf(c) == IF c = "c_minute" THEN MinuteWindow ELSE HourWindow

\* the seconds time.time() has advanced by since the call before
Ticks == {0, 1, 60, 300, 3600}

\* a loop test that also drops the timestamp standing on the boundary
ExpiredInclusive(stamp, bound) == stamp <= bound

\* request_times[0] < window_start, request_times[0] < cutoff_time
Expired(stamp, bound) == stamp < bound

\* while request_times and request_times[0] < bound: request_times.popleft()
RECURSIVE PopOlder(_, _)
PopOlder(q, bound) ==
    IF q # <<>> /\ Expired(Head(q), bound) THEN PopOlder(Tail(q), bound) ELSE q

\* d[k] = v on a dict
Put(d, k, v) == [x \in DOMAIN d \cup {k} |-> IF x = k THEN v ELSE d[x]]

\* del d[k]
Del(d, k) == [x \in DOMAIN d \ {k} |-> d[x]]

\* self.requests[client_id] on the defaultdict(deque)
History(reqs, c) == IF c \in DOMAIN reqs THEN reqs[c] ELSE <<>>

\* RateLimiter._cleanup_old_requests at the time t, on the limiter's fields
cleanup_old_requests(st, t) ==
    IF t - st.last_cleanup < cleanup_interval THEN st
    ELSE LET kept == [c \in DOMAIN st.requests |->
                         PopOlder(st.requests[c], t - RetentionSeconds)]
             live == {c \in DOMAIN kept : kept[c] # <<>>}
             blocked == {c \in DOMAIN st.blocked_clients : ~(t > st.blocked_clients[c])}
         IN  [requests |-> [c \in live |-> kept[c]],
              blocked_clients |-> [c \in blocked |-> st.blocked_clients[c]],
              last_cleanup |-> t]

\* a blocked branch that records the call in the client's history
BlockedAnswerRecording(st, c, t) ==
    [st |-> [st EXCEPT !.requests = Put(st.requests, c, Append(History(st.requests, c), t))],
     limited |-> TRUE, retry_after |-> Some(st.blocked_clients[c] - t)]

\* retry_after = int(self.blocked_clients[client_id] - current_time);
\* return True, retry_after
BlockedAnswer(st, c, t) ==
    [st |-> st, limited |-> TRUE, retry_after |-> Some(st.blocked_clients[c] - t)]

\* RateLimiter.is_rate_limited(client_id, limit, window) at the time t: the
\* limiter's fields after the call and the tuple it returns
is_rate_limited(st, c, limit, window, t) ==
    IF c \in DOMAIN st.blocked_clients /\ t < st.blocked_clients[c]
    THEN BlockedAnswer(st, c, t)
    ELSE LET unblocked == [st EXCEPT !.blocked_clients = Del(st.blocked_clients, c)]
             cleaned == cleanup_old_requests(unblocked, t)
             times == PopOlder(History(cleaned.requests, c), t - window)
         IN  IF Len(times) >= limit
             THEN [st |-> [cleaned EXCEPT
                              !.requests = Put(cleaned.requests, c, times),
                              !.blocked_clients = Put(cleaned.blocked_clients, c, t + window)],
                   limited |-> TRUE, retry_after |-> Some(window)]
             ELSE [st |-> [cleaned EXCEPT
                              !.requests = Put(cleaned.requests, c, Append(times, t))],
                   limited |-> FALSE, retry_after |-> None]

\* the limiter's fields
LimiterFields ==
    [requests |-> requests, blocked_clients |-> blocked_clients,
     last_cleanup |-> last_cleanup]

\* a limiter with a limit for each client, before any call
LimiterInit ==
    /\ ServiceInit
    /\ executors = AllExecutors
    /\ RouteIdle
    /\ MonitorIdle
    /\ LimiterFresh
    /\ \E lm \in 1..MaxLimit, lh \in 1..MaxLimit :
          quota = [c \in Clients |->
                      [limit |-> IF c = "c_minute" THEN lm ELSE lh, window |-> WindowOf(c)]]

\* one call of is_rate_limited for the client c, d seconds after the call
\* before it
IsRateLimited(c, d) ==
    /\ calls < MaxCalls
    /\ LET t == now + d
           r == is_rate_limited(LimiterFields, c, quota[c].limit, quota[c].window, t)
       IN  /\ now' = t
           /\ requests' = r.st.requests
           /\ blocked_clients' = r.st.blocked_clients
           /\ last_cleanup' = r.st.last_cleanup
           /\ answer' = [client |-> c, limited |-> r.limited, retry_after |-> r.retry_after]
           /\ admitted' = IF r.limited THEN admitted
                          ELSE [admitted EXCEPT ![c] = Append(@, t)]
    /\ calls' = calls + 1
    /\ UNCHANGED <<serviceVars, routeVars, monitor, quota>>

LimiterNext == \E c \in Clients, d \in Ticks : IsRateLimited(c, d)

LimiterSpec == LimiterInit /\ [][LimiterNext]_vars

(***************************************************************************)
(* ExecutionRequest.sanitize applied to arbitrary requests, twice          *)
(***************************************************************************)
\* the longest text drawn for a field
MaxTextLen == 3

TextAlphabet == {"x", "A", "NUL", "\r", "\n", " "}

Texts == UNION {[1..n -> TextAlphabet] : n \in 0..MaxTextLen}

\* requests whose text fields all hold the same text
TextRequests ==
    {[language |-> s, code |-> s, input |-> i, timeout |-> to] :
        s \in Texts, i \in {NoText} \cup {[some |-> TRUE, val |-> v] : v \in Texts},
        to \in {None, Some(5)}}

SanitizeInit ==
    /\ executors = NoExecutors
    /\ lock = NoThread
    /\ fs = [d \in {} |-> {}]
    /\ nextDir = 1
    /\ pc = [t \in Threads |-> "raw"]
    /\ req \in [Threads -> {r \in TextRequests : r.input.some => r.input.val = r.code}]
    /\ installed = [t \in Threads |-> FALSE]
    /\ sreq = [t \in Threads |-> NoRequest]
    /\ ex = [t \in Threads |-> NoExecutor]
    /\ proc = [t \in Threads |-> NoProc]
    /\ ret = [t \in Threads |-> NoRet]
    /\ cres = [t \in Threads |-> NoCres]
    /\ results = [t \in Threads |-> <<>>]
    /\ raised = [t \in Threads |-> FALSE]
    /\ spawns = [t \in Threads |-> <<>>]
    /\ made = [t \in Threads |-> {}]
    /\ wrote = [t \in Threads |-> {}]
    /\ failed = [t \in Threads |-> {}]
    /\ log = [t \in Threads |-> {}]
    /\ probed = [t \in Threads |-> "none"]
    /\ elapsed = [t \in Threads |-> 0]
    /\ PeripheralInit

\* sanitized = request.sanitize()
SanitizeOnce(t) ==
    /\ pc[t] = "raw"
    /\ sreq' = [sreq EXCEPT ![t] = sanitize(req[t])]
    /\ pc' = [pc EXCEPT ![t] = "sanitized"]
    /\ UNCHANGED <<peripheral, executors, lock, fs, nextDir, req, installed, ex, proc, ret,
                   cres, results, raised, spawns, made, wrote, failed, log,
                   probed, elapsed>>

\* sanitized.sanitize()
SanitizeAgain(t) ==
    /\ pc[t] = "sanitized"
    /\ sreq' = [sreq EXCEPT ![t] = sanitize(sreq[t])]
    /\ pc' = [pc EXCEPT ![t] = "resanitized"]
    /\ UNCHANGED <<peripheral, executors, lock, fs, nextDir, req, installed, ex, proc, ret,
                   cres, results, raised, spawns, made, wrote, failed, log,
                   probed, elapsed>>

SanitizeNext == \E t \in Threads : SanitizeOnce(t) \/ SanitizeAgain(t)

SanitizeSpec == SanitizeInit /\ [][SanitizeNext]_vars

(***************************************************************************)
(* Properties                                                              *)
(***************************************************************************)
\* execute() of the thread's executor was entered and has returned
ExecuteReturned(t) == ex[t].cls # "" /\ pc[t] \in {"svc_return", "done"}

\* the thread's request is answered
Answered(t) == pc[t] = "done" /\ Len(results[t]) = 1

SubmittedDenied(t) == IsDenied(ex[t].cls, sreq[t].code, sreq[t].input)

\* C2: when the submitted code matches the deny-list of its language,
\* execute() returns success=false with error type security_error and has
\* spawned no subprocess at all, the toolchain probe included.
C2_DeniedCodeNeverSpawns ==
    \A t \in Threads :
        (ExecuteReturned(t) /\ SubmittedDenied(t)) =>
            /\ results[t] = <<create_error_result("security_error")>>
            /\ spawns[t] = <<>>

\* C3: when a launched process, the compile step's or the run step's,
\* exceeded the timeout, the result has timeout=true and success=false.
C3_TimeoutIsReported ==
    \A t \in Threads :
        (ExecuteReturned(t) /\ ret[t].to) =>
            /\ Len(results[t]) = 1
            /\ results[t][1].timeout
            /\ ~results[t][1].success

\* execute_with_timeout has returned to its caller and nothing was launched
\* since
RunnerReturned(t) ==
    pc[t] \in {"compile_ret", "compiled", "ran", "cleanup", "svc_return", "done"}

\* a member of the launched process group is still alive
GroupAlive(p) == p.leader = "alive" \/ \E i \in DOMAIN p.descs : p.descs[i].alive

\* C4: after execute_with_timeout has returned timed_out=true, its signals
\* having been delivered, no process of the launched group is alive, however
\* its members reacted to SIGTERM.
C4_NoSurvivorAfterTimeout ==
    \A t \in Threads :
        (RunnerReturned(t) /\ ret[t].to /\ "Error terminating process" \notin log[t])
            => ~GroupAlive(proc[t])

\* C5: execute_code returns exactly one result and raises nothing; a failure
\* of validation, of dispatch, of the filesystem or of a subprocess launch
\* is reported as a result with success=false.
C5_OneResultNeverRaises ==
    \A t \in Threads :
        /\ ~raised[t]
        /\ Len(results[t]) <= 1
        /\ pc[t] \in {"svc_return", "done"} =>
               /\ Len(results[t]) = 1
               /\ failed[t] # {} => ~results[t][1].success

\* a request answered after the launch of a process failed
C5_Witness ==
    \E t \in Threads :
        /\ Answered(t)
        /\ "spawn" \in failed[t]
        /\ ~results[t][1].success

\* C6: every result with success=false carries an error, a non-zero exit
\* with empty stdout and stderr included.
C6_FailureCarriesError ==
    \A t \in Threads :
        \A i \in DOMAIN results[t] :
            ~results[t][i].success => results[t][i].etype # "none"

\* C7: when the safety screen rejects the code, no workspace directory and
\* no file has been created for the request.
C7_ScreenBeforeWorkspace ==
    \A t \in Threads :
        (/\ ExecuteReturned(t)
         /\ SubmittedDenied(t)
         /\ results[t] = <<create_error_result("security_error")>>)
            => (made[t] = {} /\ wrote[t] = {})

\* the executors of the compiled languages
CompiledExecutors ==
    {"CExecutor", "JavaExecutor", "CSharpExecutor", "GoExecutor", "RustExecutor"}

\* C8: a compiled-language executor whose toolchain is not installed answers
\* (code that passes the screen, no filesystem failure) with success=false
\* and error type runtime_error, and launches neither compile nor run.
C8_MissingToolchain ==
    \A t \in Threads :
        (/\ ExecuteReturned(t)
         /\ ex[t].cls \in CompiledExecutors
         /\ ~installed[t]
         /\ ~SubmittedDenied(t)
         /\ "fs" \notin failed[t])
            => /\ Len(results[t]) = 1
               /\ ~results[t][1].success
               /\ results[t][1].etype = "runtime_error"
               /\ Range(spawns[t]) \cap {"compile", "run"} = {}

\* the executors that compile in one launch and run in another
CompileThenRun == {"CExecutor", "JavaExecutor", "RustExecutor"}

\* C9: a compile-then-run executor launches the run step only when the
\* compile step was launched, exited with code 0 and did not time out.
C9_RunOnlyAfterCleanCompile ==
    [][\A t \in Threads :
         (/\ ex[t].cls \in CompileThenRun
          /\ "run" \in Range(spawns'[t])
          /\ "run" \notin Range(spawns[t]))
            => /\ "compile" \in Range(spawns[t])
               /\ ret[t].rc = 0
               /\ ~ret[t].to
      ]_vars

\* a compiled program that was run
C9_Witness ==
    \E t \in Threads :
        /\ ex[t].cls \in CompileThenRun
        /\ "compile" \in Range(spawns[t])
        /\ "run" \in Range(spawns[t])

\* the thread's request is valid and its sanitized language has no
\* registered executor
NoRegisteredExecutor(t) ==
    /\ pc[t] = "done"
    /\ validate(req[t]).valid
    /\ sanitize(req[t]).language \notin DOMAIN executors

\* C10 as stated: a valid request whose sanitized language has no registered
\* executor is answered with success=false and type unsupported_language.
C10_AsStated ==
    \A t \in Threads :
        NoRegisteredExecutor(t) =>
            results[t] = <<create_error_result("unsupported_language")>>

\* C10: a valid request whose sanitized language has no registered executor
\* is answered with success=false: with type unsupported_language when the
\* language is not in the catalog, with executor_not_available when it is.
C10_NoExecutorIsAnError ==
    \A t \in Threads :
        NoRegisteredExecutor(t) =>
            results[t] = <<create_error_result(
                IF sanitize(req[t]).language \in DOMAIN SUPPORTED_LANGUAGES
                THEN "executor_not_available" ELSE "unsupported_language")>>

\* a valid request for a language outside the catalog, answered
C10_Witness ==
    \E t \in Threads :
        /\ NoRegisteredExecutor(t)
        /\ results[t] = <<create_error_result("unsupported_language")>>

\* execute_with_timeout of the thread has a subprocess it has not returned from
SubprocessRunning(t) ==
    pc[t] \in {"communicate", "sigterm", "wait", "sigkill", "final"}

\* C11: the dispatch lock serializes the submission only: it is not held
\* while a request's subprocess runs, so that the subprocesses of two
\* concurrent calls can run at the same time.
C11_LockFreeWhileSubprocessRuns ==
    \A t \in Workers : SubprocessRunning(t) => lock # t

\* the thread's execution is in flight: it is inside the with block
InFlight(t) == lock = t

\* the thread's executor names the directory d as its workspace
Owns(t, d) == d # NoDir /\ ex[t].temp_dir = d

RequestInvariants(r) ==
    /\ Len(r.code) > 0
    /\ Len(r.code) <= MaxCodeLen
    /\ r.input.some => Len(r.input.val) <= MaxInputLen
    /\ r.timeout.some => (r.timeout.val >= MinTimeout /\ r.timeout.val <= MaxTimeout)
    /\ MatchesLanguagePattern(r.language)

\* C13: a request that passed validate() and was sanitized still satisfies
\* the request invariants when it reaches an executor.
C13_InvariantsSurviveSanitize ==
    \A t \in Threads : ex[t].cls # "" => RequestInvariants(sreq[t])

\* C14: sanitize is idempotent: sanitizing a sanitized request gives the
\* sanitized request again, in language, code, input and timeout.
C14_SanitizeIdempotent ==
    \A t \in Threads :
        pc[t] = "resanitized" =>
            /\ sreq[t].language = sanitize(req[t]).language
            /\ sreq[t].code = sanitize(req[t]).code
            /\ sreq[t].input = sanitize(req[t]).input
            /\ sreq[t].timeout = sanitize(req[t]).timeout

\* a request that sanitize changed in language, code and input, sanitized
\* twice
C14_Witness ==
    \E t \in Threads :
        /\ pc[t] = "resanitized"
        /\ sreq[t].language # req[t].language
        /\ sreq[t].code # req[t].code
        /\ req[t].input.some
        /\ sreq[t].input # req[t].input
        /\ "\r" \in Range(req[t].code)
        /\ "NUL" \in Range(req[t].code)

\* C15: when the request carries no timeout, the deadline the executor
\* applies to its subprocesses is the max_execution_time that the resource
\* limits table gives for the language.
C15_DeadlineFromResourceLimits ==
    \A t \in Threads :
        (ex[t].cls # "" /\ ~sreq[t].timeout.some) =>
            ex[t].timeout = create_resource_limits(sreq[t].language)

\* two executions that were given the same sanitized request and met the
\* same toolchain and the same subprocess behaviour
SameBehaviour(t, u) ==
    /\ sreq[t] = sreq[u]
    /\ installed[t] = installed[u]
    /\ probed[t] = probed[u]
    /\ failed[t] = failed[u]
    /\ spawns[t] = spawns[u]
    /\ cres[t] = cres[u]
    /\ ret[t] = ret[u]

SecondCleanup(t) == pc[t] = "svc_return" /\ pc'[t] = "cleaned_again"

\* the second cleanup_temp_files changed nothing: it raised nothing, logged
\* nothing, and left the executor and the directory tree as they were
NoOpCleanup(t) ==
    /\ raised'[t] = raised[t]
    /\ log'[t] = log[t]
    /\ ex'[t] = ex[t]
    /\ fs' = fs
    /\ ex'[t].temp_dir = NoDir
    /\ ex'[t].temp_files = {}

\* C17 as stated: a second cleanup_temp_files raises nothing and leaves the
\* executor as the first call left it, with temp_dir None, temp_files empty
\* and the workspace directory absent.
C17_AsStated ==
    [][\A t \in Threads :
          SecondCleanup(t) => (NoOpCleanup(t) /\ made[t] \cap DOMAIN fs' = {})]_vars

\* the directories the executor wrote files into
WrittenDirs(t) == {w[1] : w \in wrote[t]}

\* C17 amended: a second cleanup_temp_files raises nothing and changes
\* nothing, with temp_dir None and temp_files empty. It removes no
\* directory: the directory the executor wrote into is absent when the first
\* call removed it, and a directory the first call failed to remove is
\* still there.
C17_SecondCleanupIsNoOp ==
    [][\A t \in Threads :
          SecondCleanup(t) =>
              /\ NoOpCleanup(t)
              /\ ("Failed to remove temp directory" \in log[t])
                     => made[t] \cap DOMAIN fs' # {}
              /\ ("Failed to remove temp directory" \notin log[t])
                     => WrittenDirs(t) \cap DOMAIN fs' = {}]_vars

\* an executor that made a workspace and wrote into it has been cleaned up
\* twice, and the workspace is gone
C17_Witness ==
    \E t \in Threads :
        /\ pc[t] = "cleaned_again"
        /\ made[t] # {}
        /\ wrote[t] # {}
        /\ made[t] \cap DOMAIN fs = {}

\* C18: every call of execute_with_timeout that launched a process returns
\* to its caller in the end, whatever the process and its descendants do,
\* as long as the signals it sends are delivered.
C18_RunnerReturns ==
    \A t \in Threads :
        SubprocessRunning(t) ~>
            (RunnerReturned(t) \/ "Error terminating process" \in log[t])

\* C19: after the deadline the runner signals SIGTERM first, waits the grace
\* window, and goes on to SIGKILL exactly when a member of the process
\* group is still alive at the end of the window; it never reaches SIGKILL
\* from anywhere but the end of that window.
C19_KillIffGroupSurvivesTerm ==
    [][\A t \in Threads :
          /\ (pc[t] = "communicate" /\ pc'[t] # "communicate" /\ ret'[t].to)
                 => pc'[t] = "sigterm"
          /\ (pc[t] = "wait" /\ pc'[t] # "wait")
                 => (pc'[t] = "sigkill" <=> GroupAlive(proc[t]))
          /\ (pc[t] # "sigkill" /\ pc'[t] = "sigkill") => pc[t] = "wait"]_vars

\* C20: in a compile-then-run execution the compile launch and the run
\* launch share one timeout budget: the seconds spent in the two launches
\* together never exceed the timeout plus the grace period.
C20_OneTimeoutBudget ==
    \A t \in Threads :
        ex[t].cls \in CompileThenRun => elapsed[t] <= ex[t].timeout + GracePeriod

\* C21: once _handle_violation has completed, its signals having been
\* allowed by the system, the monitored process and every descendant of it
\* are gone.
C21_TreeDeadAfterViolation ==
    (monitor.pc = "done" /\ "Could not terminate process" \notin monitor.log)
        => ~TreeAlive(monitor)

\* execute() has classified the output of the run step
Classified(t) == pc[t] = "cleanup" /\ Len(results[t]) = 1 /\ spawns[t] = <<>>

\* C22: the reported type follows the priority order of the categories: a
\* compilation/syntax marker in the text gives a compilation/syntax type;
\* without one, a named runtime exception or panic marker gives a named
\* type; without either, a generic crash marker or nothing gives
\* runtime_error.
C22_PriorityOrder ==
    \A t \in Threads :
        (Classified(t) /\ ex[t].cls \in PriorityChecked /\ ret[t].err # {}) =>
            LET text == ret[t].err
                ty == results[t][1].etype
                compile == HasAny(text, CompileMarkers(ex[t].cls))
                named == HasNamedMarker(ex[t].cls, text)
            IN  /\ compile => ty \in CompileTypes
                /\ (~compile /\ named) => ty \notin CompileTypes \cup {"runtime_error"}
                /\ (~compile /\ ~named) => ty = "runtime_error"

\* the safety screen has rejected the request of thread t
ScreenRejected(t) == results[t] = <<create_error_result("security_error")>>

\* C23: once the safety screen has rejected a request, handling the request
\* changes neither the user's usage counters nor the session's
\* execution_count.
C23_RejectionIsNotCounted ==
    [][\A t \in Threads :
          ScreenRejected(t) =>
              (usage' = usage /\ execution_count' = execution_count)]_vars

\* the number of processes execute() has launched for the step
Launched(t, step) == Cardinality({i \in DOMAIN spawns[t] : spawns[t][i] = step})

\* C24: nothing is retried: one execution launches at most one compile
\* process and at most one run process, and it stands at a launch step only
\* when that step has not launched yet and no launch has failed or timed out.
C24_NoRetry ==
    \A t \in Threads :
        /\ Launched(t, "compile") <= 1
        /\ Launched(t, "run") <= 1
        /\ pc[t] \in {"compile", "run"} =>
              /\ Launched(t, pc[t]) = 0
              /\ "spawn" \notin failed[t]
              /\ ~ret[t].to

\* an execution is answered after its launch failed or timed out
C24_Witness ==
    \E t \in Threads :
        /\ Answered(t)
        /\ ex[t].cls \in CompileThenRun
        /\ Launched(t, "compile") = 1
        /\ \/ Launched(t, "run") = 1 /\ ret[t].to
           \/ Launched(t, "run") = 0 /\ "spawn" \in failed[t]

\* the termination signal of thread t's launch failed at the OS level
SignalFailed(t) == "Error terminating process" \in log[t]

\* C25: when sending the termination or the kill signal failed at the OS
\* level, execute_with_timeout's return is still the timed-out one, with
\* timed_out=true, the output the process wrote and the timeout notice on
\* stderr, never the execution-error tuple.
C25_SignalFailureIsSwallowed ==
    \A t \in Threads :
        (RunnerReturned(t) /\ SignalFailed(t)) =>
            /\ ret[t].to
            /\ ret[t].out = proc[t].out
            /\ ret[t].err = proc[t].err \cup {"TimeoutNotice"}
            /\ ret[t] # SpawnFailure

\* a launch has returned after its signal failed at the OS level
C25_Witness ==
    \E t \in Threads : RunnerReturned(t) /\ SignalFailed(t) /\ ret[t].to

\* the run step of thread t's execution has launched its process
RunLaunched(t) == Launched(t, "run") = 1

\* C26: in the C, Java and Rust executors the type compilation_error is
\* reported only when the compile step failed: once the compile step has
\* succeeded and the run step has launched, the result's error type is
\* never compilation_error.
C26_CompilationErrorOnlyFromCompile ==
    \A t \in Threads :
        (Answered(t) /\ ex[t].cls \in CompileThenRun /\ cres[t].success
            /\ RunLaunched(t)) =>
            results[t][1].etype # "compilation_error"

\* C27: an execution whose run process was launched reports success=true
\* exactly when the run did not time out, exited with code 0 and left
\* nothing but whitespace on stderr.
C27_SuccessIffCleanRun ==
    \A t \in Threads :
        (Answered(t) /\ RunLaunched(t)) =>
            (results[t][1].success <=>
                (~ret[t].to /\ ret[t].rc = 0 /\ ret[t].err = {}))

\* a run that exited with code 0 and wrote to stderr is answered as failed
C27_Witness ==
    \E t \in Threads :
        /\ Answered(t) /\ RunLaunched(t)
        /\ ~ret[t].to /\ ret[t].rc = 0 /\ ret[t].err # {}
        /\ ~results[t][1].success

\* the request of thread t names a language of the catalog and is valid
CatalogRequest(t) ==
    validate(req[t]).valid /\ get_language_by_id(sanitize(req[t]).language).some

\* C28: registration is all or nothing: the registry holds all twelve
\* executors or none, and when an import failed every request for a
\* language of the catalog is answered executor_not_available.
C28_RegistrationAllOrNothing ==
    /\ executors \in {AllExecutors, NoExecutors}
    /\ Cardinality(DOMAIN executors) \in {0, 12}
    /\ executors = NoExecutors =>
          \A t \in Threads :
              (pc[t] = "done" /\ CatalogRequest(t)) =>
                  results[t] = <<create_error_result("executor_not_available")>>

\* with an empty registry a request for a catalog language has been answered
C28_Witness ==
    \E t \in Threads :
        /\ executors = NoExecutors
        /\ pc[t] = "done" /\ CatalogRequest(t)
        /\ results[t] = <<create_error_result("executor_not_available")>>

\* the calls admitted for the client c with timestamps in [from, from + W]
AdmittedWithin(c, from) ==
    {j \in DOMAIN admitted[c] :
        admitted[c][j] >= from /\ admitted[c][j] <= from + quota[c].window}

CallWhileBlocked(c) ==
    /\ calls' = calls + 1
    /\ answer'.client = c
    /\ c \in DOMAIN blocked_clients
    /\ now' < blocked_clients[c]

\* C30: a call of is_rate_limited made for a client while it is blocked
\* returns limited and leaves the client's block_until and its recorded
\* request history as they were.
C30_BlockedCallChangesNothing ==
    [][\A c \in Clients :
          CallWhileBlocked(c) =>
              /\ answer'.limited
              /\ c \in DOMAIN blocked_clients'
              /\ blocked_clients'[c] = blocked_clients[c]
              /\ History(requests', c) = History(requests, c)
              /\ admitted'[c] = admitted[c]]_vars

\* a call made during a block was answered with the time left of the block
C30_Witness ==
    \E c \in Clients :
        /\ answer.client = c /\ answer.limited
        /\ c \in DOMAIN blocked_clients /\ now < blocked_clients[c]
        /\ answer.retry_after.some
        /\ answer.retry_after.val < quota[c].window

====
